---- MODULE Spec2Model ----
(***************************************************************************)
(* Titan desktop: the thread state store (store.ts reducer), the app shell *)
(* effects of App.tsx (hydrate / persist) and the session registry of      *)
(* TerminalManager.tsx.                                                    *)
(*                                                                         *)
(* Nullable values of the source (T | null) are sequences of length <= 1:  *)
(* Null is << >> and a present value v is <<v>>.                           *)
(***************************************************************************)
EXTENDS Integers, Sequences, FiniteSets, TLC

\* ------------------------------------------------------------------ bounds
\* number of thread ids the id generator can hand out
MaxThreads == 2
\* number of PTY processes one app session may spawn
MaxProcs == 2
\* last value of the wall clock (Date.now())
MaxTime == 2
\* scheduled messages made in one run of the app
MaxMsgs == 2
\* firings of one message that are counted
MaxFired == 2
\* output chunks delivered by one process
MaxChunks == 2
\* calls (write, resize) one process receives
MaxCalls == 2

\* ------------------------------------------------- program constants
\* ptyExitCode written by KILL_THREAD_PTY
KilledCode == -1
\* ptyExitCode written for every thread by the hydrate effect
HydratedCode == 0
\* exit code a process reports when it ends by itself
SelfExitCode == 1
\* ptyId passed by every CREATE_THREAD dispatch
PtyIdArg == 0
\* the lines the recent-output buffer of a session keeps
RingCapacity == 5
\* the characters of an output line that make an automatic title
TitleMax == 60
\* the characters of an output line that make a preview
PreviewMax == 120
\* a line must be longer than this to make a title
TitleMinLen == 3

Null == << >>
Some(v) == <<v>>
IsNull(x) == x = << >>
Val(x) == x[1]

ThreadIds == 1..MaxThreads
MsgIds == 1..MaxMsgs
Channels == {"c1"}
Statuses == {"active", "snoozed", "done", "inactive"}
\* titles: the default title, a prompt typed by the user, a title set by rename
DefaultTitle == "New thread"
Titles == {DefaultTitle, "prompt"}

VARIABLES
    threads,            \* AppState.threads: sequence of Thread records
    selectedThreadId,   \* AppState.selectedThreadId (nullable)
    selectedChannelId,  \* AppState.selectedChannelId (nullable)
    now,                \* Date.now()
    nextId,             \* threadCounter: the next fresh thread id
    storage,            \* localStorage["titan:threads"] (nullable)
    phase,              \* "mount" | "running" | "saved" | "closed" | "crashed"
    scheduledMessages,  \* AppState.scheduledMessages
    nextMsgId,          \* the next fresh scheduled-message id
    storedScheduled,    \* localStorage["titan:scheduledMessages"] (nullable)
    fired,              \* message id -> threads the fire sweep made of it
    instances,          \* instancesRef: thread id -> TerminalInstance handle
    objs,               \* the TerminalInstance objects ever allocated
    procs,              \* the PTY processes ever spawned
    timers,             \* pending setTimeout callbacks of spawnPty
    dirty               \* a render was committed whose effects have not run

\* what outlives the page: the saved messages and what was fired
outerVars == <<storedScheduled, fired>>
storeVars == <<threads, selectedThreadId, selectedChannelId, now, nextId,
               storage, phase, scheduledMessages, nextMsgId,
               storedScheduled, fired>>
regVars == <<instances, objs, procs, timers, dirty>>
vars == <<threads, selectedThreadId, selectedChannelId, now, nextId,
          storage, phase, scheduledMessages, nextMsgId,
          storedScheduled, fired,
          instances, objs, procs, timers, dirty>>

\* ------------------------------------------------------------ helpers
Idx(ths) == DOMAIN ths
IdsOf(ths) == {ths[i].id : i \in Idx(ths)}
HasThread(ths, id) == \E i \in Idx(ths) : ths[i].id = id
ThreadOf(ths, id) == ths[CHOOSE i \in Idx(ths) : ths[i].id = id]
\* Array.prototype.filter
RECURSIVE FilterOut(_, _)
FilterOut(ths, id) ==
    IF ths = << >> THEN << >>
    ELSE IF Head(ths).id = id THEN FilterOut(Tail(ths), id)
         ELSE <<Head(ths)>> \o FilterOut(Tail(ths), id)

\* ------------------------------------------------------------ reducer
\* deriveUnread(thread, selectedThreadId)
deriveUnread_NoSelectedCheck(thread, selId) ==
    thread.lastActivityAt > (IF IsNull(thread.lastReadAt) THEN 0
                             ELSE Val(thread.lastReadAt))

deriveUnread(thread, selId) ==
    IF Some(thread.id) = selId THEN FALSE
    ELSE thread.lastActivityAt > (IF IsNull(thread.lastReadAt) THEN 0
                                  ELSE Val(thread.lastReadAt))

\* makeThread(base)
makeThread(id, channelId, title, threadType, ptyId, autoTitled, t) ==
    [ id |-> id,
      channelId |-> channelId,
      title |-> title,
      status |-> "active",
      lastActivityAt |-> t,
      lastReadAt |-> Some(t),
      hasUnread |-> FALSE,
      snoozeUntil |-> Null,
      snoozeDue |-> FALSE,
      lastOutputPreview |-> Null,
      threadType |-> threadType,
      ptyId |-> ptyId,
      ptyRunning |-> (threadType = "terminal"),
      ptyExitCode |-> Null,
      autoTitled |-> autoTitled ]

\* case "CREATE_THREAD"
ReduceCreateThread_Prepend(ths, id, channelId, title, ptyId, t) ==
    <<makeThread(id, channelId,
                 IF title = "" THEN DefaultTitle ELSE title,
                 "terminal", Some(ptyId),
                 title = "" \/ title = DefaultTitle, t)>> \o ths

ReduceCreateThread(ths, id, channelId, title, ptyId, t) ==
    Append(ths, makeThread(id, channelId,
                           IF title = "" THEN DefaultTitle ELSE title,
                           "terminal", Some(ptyId),
                           title = "" \/ title = DefaultTitle, t))

\* case "CREATE_CHAT_THREAD"
ReduceCreateChatThread(ths, id, channelId, title, t) ==
    Append(ths, makeThread(id, channelId,
                           IF title = "" THEN "New chat" ELSE title,
                           "chat", Null, FALSE, t))

\* case "SELECT_THREAD"
ReduceSelectThread_KeepDue(ths, id, t) ==
    [i \in Idx(ths) |->
        IF ths[i].id = id
        THEN [ths[i] EXCEPT !.lastReadAt = Some(t), !.hasUnread = FALSE]
        ELSE ths[i]]

ReduceSelectThread(ths, id, t) ==
    [i \in Idx(ths) |->
        IF ths[i].id = id
        THEN [ths[i] EXCEPT !.lastReadAt = Some(t), !.hasUnread = FALSE,
                            !.snoozeDue = FALSE]
        ELSE ths[i]]

\* case "SET_THREAD_STATUS"; snoozeUntil is the optional action field
ReduceSetThreadStatus_KeepUntil(ths, id, status, snoozeUntil) ==
    [i \in Idx(ths) |->
        IF ths[i].id # id THEN ths[i]
        ELSE [ths[i] EXCEPT !.status = status,
                            !.snoozeUntil = snoozeUntil,
                            !.snoozeDue = FALSE]]

ReduceSetThreadStatus(ths, id, status, snoozeUntil) ==
    [i \in Idx(ths) |->
        IF ths[i].id # id THEN ths[i]
        ELSE [ths[i] EXCEPT !.status = status,
                            !.snoozeUntil = IF status = "snoozed"
                                            THEN snoozeUntil ELSE Null,
                            !.snoozeDue = FALSE]]

\* case "MARK_ACTIVITY"
ReduceMarkActivity_Stale(ths, id, selId, t) ==
    [i \in Idx(ths) |->
        IF ths[i].id = id
        THEN [ths[i] EXCEPT !.lastActivityAt = t,
                            !.hasUnread = deriveUnread(ths[i], selId)]
        ELSE ths[i]]

ReduceMarkActivity(ths, id, selId, t) ==
    [i \in Idx(ths) |->
        IF ths[i].id = id
        THEN LET updated == [ths[i] EXCEPT !.lastActivityAt = t]
             IN  [updated EXCEPT !.hasUnread = deriveUnread(updated, selId)]
        ELSE ths[i]]

\* case "MARK_ALL_READ"
ReduceMarkAllRead_TouchAll(ths, t) ==
    [i \in Idx(ths) |->
        [ths[i] EXCEPT !.hasUnread = FALSE, !.snoozeDue = FALSE,
                       !.lastReadAt = Some(t)]]

ReduceMarkAllRead(ths, t) ==
    [i \in Idx(ths) |->
        IF ths[i].hasUnread \/ ths[i].snoozeDue
        THEN [ths[i] EXCEPT !.hasUnread = FALSE, !.snoozeDue = FALSE,
                            !.lastReadAt = Some(t)]
        ELSE ths[i]]

\* case "WAKE_SNOOZED"
ReduceWakeSnoozed_NoTimeCheck(ths, t) ==
    [i \in Idx(ths) |->
        IF /\ ths[i].status = "snoozed"
           /\ ~IsNull(ths[i].snoozeUntil)
           /\ ~ths[i].snoozeDue
        THEN [ths[i] EXCEPT !.snoozeDue = TRUE]
        ELSE ths[i]]

ReduceWakeSnoozed(ths, t) ==
    [i \in Idx(ths) |->
        IF /\ ths[i].status = "snoozed"
           /\ ~IsNull(ths[i].snoozeUntil)
           /\ t >= Val(ths[i].snoozeUntil)
           /\ ~ths[i].snoozeDue
        THEN [ths[i] EXCEPT !.snoozeDue = TRUE]
        ELSE ths[i]]

\* case "KILL_THREAD_PTY"
ReduceKillThreadPty_KeepStatus(ths, id) ==
    [i \in Idx(ths) |->
        IF ths[i].id = id
        THEN [ths[i] EXCEPT !.ptyId = Null,
                            !.ptyRunning = FALSE,
                            !.ptyExitCode = Some(KilledCode)]
        ELSE ths[i]]

ReduceKillThreadPty(ths, id) ==
    [i \in Idx(ths) |->
        IF ths[i].id = id
        THEN [ths[i] EXCEPT !.ptyId = Null,
                            !.ptyRunning = FALSE,
                            !.ptyExitCode = Some(KilledCode),
                            !.status = "inactive"]
        ELSE ths[i]]

\* case "SET_PTY_EXITED"
ReduceSetPtyExited_SetsStatus(ths, id, exitCode) ==
    [i \in Idx(ths) |->
        IF ths[i].id = id
        THEN [ths[i] EXCEPT !.ptyRunning = FALSE,
                            !.ptyExitCode = Some(exitCode),
                            !.status = "inactive"]
        ELSE ths[i]]

ReduceSetPtyExited_StillRunning(ths, id, exitCode) ==
    [i \in Idx(ths) |->
        IF ths[i].id = id
        THEN [ths[i] EXCEPT !.ptyExitCode = Some(exitCode)]
        ELSE ths[i]]

ReduceSetPtyExited(ths, id, exitCode) ==
    [i \in Idx(ths) |->
        IF ths[i].id = id
        THEN [ths[i] EXCEPT !.ptyRunning = FALSE,
                            !.ptyExitCode = Some(exitCode)]
        ELSE ths[i]]

\* case "SET_PTY_RUNNING"
ReduceSetPtyRunning_KeepCode(ths, id) ==
    [i \in Idx(ths) |->
        IF ths[i].id = id
        THEN [ths[i] EXCEPT !.ptyRunning = TRUE]
        ELSE ths[i]]

ReduceSetPtyRunning(ths, id) ==
    [i \in Idx(ths) |->
        IF ths[i].id = id
        THEN [ths[i] EXCEPT !.ptyRunning = TRUE, !.ptyExitCode = Null]
        ELSE ths[i]]

\* case "ADD_CHAT_MESSAGE" (the message list and the preview are not modelled)
ReduceAddChatMessage(ths, id, t) ==
    [i \in Idx(ths) |->
        IF ths[i].id # id THEN ths[i]
        ELSE [ths[i] EXCEPT !.lastActivityAt = t]]

\* case "RENAME_THREAD"
ReduceRenameThread(ths, id, title) ==
    [i \in Idx(ths) |->
        IF ths[i].id = id
        THEN [ths[i] EXCEPT !.title = title, !.autoTitled = FALSE]
        ELSE ths[i]]

\* case "SET_OUTPUT_PREVIEW"
ReduceSetOutputPreview(ths, id, preview) ==
    [i \in Idx(ths) |->
        IF ths[i].id = id
        THEN [ths[i] EXCEPT !.lastOutputPreview = Some(preview)]
        ELSE ths[i]]

\* case "SCHEDULE_MESSAGE"
ReduceScheduleMessage(msgs, message) == Append(msgs, message)

\* case "CANCEL_SCHEDULED"
ReduceCancelScheduled_DropFirst(msgs, messageId) ==
    IF msgs = << >> THEN msgs ELSE Tail(msgs)

ReduceCancelScheduled(msgs, messageId) ==
    SelectSeq(msgs, LAMBDA m : m.id # messageId)

\* case "FIRE_SCHEDULED"
ReduceFireScheduled(msgs, messageId) ==
    SelectSeq(msgs, LAMBDA m : m.id # messageId)

\* case "DELETE_THREAD"
ReduceDeleteThread_Truncate(ths, id) ==
    IF HasThread(ths, id)
    THEN SubSeq(ths, 1, (CHOOSE i \in Idx(ths) : ths[i].id = id) - 1)
    ELSE ths

ReduceDeleteThread(ths, id) == FilterOut(ths, id)

\* ---------------------------------------------------------- JSON texts
\* A value of localStorage is a text: the text of an array (items: the
\* texts of its elements), the text of a value that is not an array
\* ("object"), or a text that is not JSON at all ("garbage").
NullableFields ==
    {"lastReadAt", "snoozeUntil", "lastOutputPreview", "ptyId", "ptyExitCode"}

\* JSON.stringify of a nullable field: the token null or the value
JsonOfNullable(x) ==
    IF IsNull(x) THEN [isNull |-> TRUE]
    ELSE [isNull |-> FALSE, value |-> Val(x)]

\* JSON.parse of the token null or of a value
NullableOfJson(j) == IF j.isNull THEN Null ELSE Some(j.value)

\* JSON.stringify(state.threads)
JsonStringifyThreads(ths) ==
    [kind |-> "array",
     items |-> [i \in Idx(ths) |->
                  [k \in DOMAIN ths[i] |->
                      IF k \in NullableFields
                      THEN JsonOfNullable(ths[i][k]) ELSE ths[i][k]]]]

\* the elements of JSON.parse(savedThreads), an array
JsonParseThreads(text) ==
    [i \in DOMAIN text.items |->
        [k \in DOMAIN text.items[i] |->
            IF k \in NullableFields
            THEN NullableOfJson(text.items[i][k]) ELSE text.items[i][k]]]

\* JSON.stringify(state.scheduledMessages): no field of a message is
\* nullable
JsonStringifyMessages(msgs) == [kind |-> "array", items |-> msgs]

\* the value a state holds after JSON.parse gave something that is not an
\* array
NotAnArray == <<"{}">>

\* JSON.parse(savedScheduled), whatever it is
JsonParseMessages(text) ==
    IF text.kind = "array" THEN text.items ELSE NotAnArray

\* the map of the hydrate effect over the parsed threads
HydrateThreads_KeepUnread(saved) ==
    [i \in Idx(saved) |->
        [saved[i] EXCEPT !.ptyRunning = FALSE,
                         !.ptyExitCode = Some(HydratedCode),
                         !.ptyId = Null]]

HydrateThreads(saved) ==
    [i \in Idx(saved) |->
        [saved[i] EXCEPT !.ptyRunning = FALSE,
                         !.ptyExitCode = Some(HydratedCode),
                         !.ptyId = Null,
                         !.hasUnread = FALSE]]

\* ------------------------------------------------- store: initial state
\* initialState, with nothing persisted yet and the app freshly mounted
StoreInit ==
    /\ threads = << >>
    /\ selectedThreadId = Null
    /\ selectedChannelId = Null
    /\ now = 1
    /\ nextId = 1
    /\ storage = Null
    /\ phase = "mount"
    /\ scheduledMessages = << >>
    /\ nextMsgId = 1
    /\ storedScheduled = Null
    /\ fired = [m \in MsgIds |-> 0]

\* the registry after mount: instancesRef = new Map(), nothing spawned
RegInit ==
    /\ instances = [id \in ThreadIds |-> Null]
    /\ objs = << >>
    /\ procs = << >>
    /\ timers = {}
    /\ dirty = FALSE

Init == StoreInit /\ RegInit

\* ------------------------------------------------- store: dispatches
\* Each Dispatch* is one dispatch(action) applied by reducer(state, action).
Running == phase = "running"

\* dispatch CREATE_THREAD with a fresh id (handleCreateTerminal, the prompt
\* box, the fire-scheduled sweep)
DispatchCreateThread(channelId, title) ==
    /\ Running
    /\ nextId <= MaxThreads
    /\ threads' = ReduceCreateThread(threads, nextId, channelId, title,
                                     PtyIdArg, now)
    /\ selectedThreadId' = Some(nextId)
    /\ selectedChannelId' = Some(channelId)
    /\ nextId' = nextId + 1
    /\ UNCHANGED <<now, scheduledMessages, nextMsgId, outerVars, storage, phase>>

\* dispatch CREATE_CHAT_THREAD (handleCreateChat)
DispatchCreateChatThread(channelId) ==
    /\ Running
    /\ nextId <= MaxThreads
    /\ threads' = ReduceCreateChatThread(threads, nextId, channelId,
                                         "New chat", now)
    /\ selectedThreadId' = Some(nextId)
    /\ selectedChannelId' = Some(channelId)
    /\ nextId' = nextId + 1
    /\ UNCHANGED <<now, scheduledMessages, nextMsgId, outerVars, storage, phase>>

\* dispatch SELECT_THREAD (handleSelectThread, and the restore-selection
\* effect with the id saved in sessionStorage)
DispatchSelectThread_NullIfMissing(id) ==
    /\ Running
    /\ threads' = ReduceSelectThread(threads, id, now)
    /\ selectedThreadId' = IF HasThread(threads, id) THEN Some(id) ELSE Null
    /\ UNCHANGED <<selectedChannelId, now, scheduledMessages, nextMsgId, outerVars,
                   nextId, storage, phase>>

DispatchSelectThread(id) ==
    /\ Running
    /\ threads' = ReduceSelectThread(threads, id, now)
    /\ selectedThreadId' = Some(id)
    /\ UNCHANGED <<selectedChannelId, now, scheduledMessages, nextMsgId, outerVars,
                   nextId, storage, phase>>

DispatchSetThreadStatus(id, status, snoozeUntil) ==
    /\ Running
    /\ threads' = ReduceSetThreadStatus(threads, id, status, snoozeUntil)
    /\ UNCHANGED <<selectedThreadId, selectedChannelId, now, scheduledMessages, nextMsgId, outerVars, nextId, storage,
                   phase>>

\* MARK_ACTIVITY comes from a terminal's output while the thread is not the
\* selected one, and from the end of a chat submission for its chat thread.
DispatchMarkActivity(id) ==
    /\ Running
    /\ HasThread(threads, id) =>
          \/ ThreadOf(threads, id).threadType = "chat"
          \/ selectedThreadId # Some(id)
    /\ threads' = ReduceMarkActivity(threads, id, selectedThreadId, now)
    /\ UNCHANGED <<selectedThreadId, selectedChannelId, now, scheduledMessages, nextMsgId, outerVars, nextId, storage,
                   phase>>

DispatchSelectChannel(channelId) ==
    /\ Running
    /\ selectedChannelId' = Some(channelId)
    /\ selectedThreadId' = Null
    /\ UNCHANGED <<threads, now, scheduledMessages, nextMsgId, outerVars, nextId, storage, phase>>

DispatchMarkAllRead ==
    /\ Running
    /\ threads' = ReduceMarkAllRead(threads, now)
    /\ UNCHANGED <<selectedThreadId, selectedChannelId, now, scheduledMessages, nextMsgId, outerVars, nextId, storage,
                   phase>>

DispatchWakeSnoozed ==
    /\ Running
    /\ threads' = ReduceWakeSnoozed(threads, now)
    /\ UNCHANGED <<selectedThreadId, selectedChannelId, now, scheduledMessages, nextMsgId, outerVars, nextId, storage,
                   phase>>

DispatchKillThreadPty(id) ==
    /\ Running
    /\ threads' = ReduceKillThreadPty(threads, id)
    /\ UNCHANGED <<selectedThreadId, selectedChannelId, now, scheduledMessages, nextMsgId, outerVars, nextId, storage,
                   phase>>

DispatchSetPtyExited(id, exitCode) ==
    /\ Running
    /\ threads' = ReduceSetPtyExited(threads, id, exitCode)
    /\ UNCHANGED <<selectedThreadId, selectedChannelId, now, scheduledMessages, nextMsgId, outerVars, nextId, storage,
                   phase>>

DispatchSetPtyRunning(id) ==
    /\ Running
    /\ threads' = ReduceSetPtyRunning(threads, id)
    /\ UNCHANGED <<selectedThreadId, selectedChannelId, now, scheduledMessages, nextMsgId, outerVars, nextId, storage,
                   phase>>

\* ChatView.handleSubmit: ADD_CHAT_MESSAGE for the selected chat thread
DispatchAddChatMessage(id) ==
    /\ Running
    /\ selectedThreadId = Some(id)
    /\ HasThread(threads, id)
    /\ ThreadOf(threads, id).threadType = "chat"
    /\ threads' = ReduceAddChatMessage(threads, id, now)
    /\ UNCHANGED <<selectedThreadId, selectedChannelId, now, scheduledMessages, nextMsgId, outerVars, nextId, storage,
                   phase>>

DispatchRenameThread(id, title) ==
    /\ Running
    /\ threads' = ReduceRenameThread(threads, id, title)
    /\ UNCHANGED <<selectedThreadId, selectedChannelId, now, scheduledMessages, nextMsgId, outerVars, nextId, storage,
                   phase>>

DispatchDeleteThread(id) ==
    /\ Running
    /\ threads' = ReduceDeleteThread(threads, id)
    /\ selectedThreadId' = IF selectedThreadId = Some(id) THEN Null
                           ELSE selectedThreadId
    /\ UNCHANGED <<selectedChannelId, now, scheduledMessages, nextMsgId, outerVars, nextId, storage, phase>>

\* the preview timer of a session dispatches SET_OUTPUT_PREVIEW with the
\* newest output line, whether or not the thread is still in the store
DispatchSetOutputPreview(id, preview) ==
    /\ Running
    /\ threads' = ReduceSetOutputPreview(threads, id, preview)
    /\ UNCHANGED <<selectedThreadId, selectedChannelId, now, nextId, storage,
                   phase, scheduledMessages, nextMsgId, outerVars>>

\* handleScheduleSend(timestamp): SCHEDULE_MESSAGE with a fresh id for the
\* selected channel
DispatchScheduleMessage(prompt, scheduledAt) ==
    /\ Running
    /\ ~IsNull(selectedChannelId)
    /\ nextMsgId <= MaxMsgs
    /\ scheduledMessages' =
          ReduceScheduleMessage(scheduledMessages,
                                [id |-> nextMsgId,
                                 channelId |-> Val(selectedChannelId),
                                 prompt |-> prompt,
                                 scheduledAt |-> scheduledAt])
    /\ nextMsgId' = nextMsgId + 1
    /\ UNCHANGED <<threads, selectedThreadId, selectedChannelId, now, nextId,
                   storage, phase, outerVars>>

\* the cancel button of a pending message: CANCEL_SCHEDULED
DispatchCancelScheduled(messageId) ==
    /\ Running
    /\ \E i \in DOMAIN scheduledMessages :
          scheduledMessages[i].id = messageId
    /\ scheduledMessages' = ReduceCancelScheduled(scheduledMessages, messageId)
    /\ UNCHANGED <<threads, selectedThreadId, selectedChannelId, now, nextId,
                   storage, phase, nextMsgId, outerVars>>

\* the hydrate effect of AppInner, run once after mount: HYDRATE is
\* dispatched only when something was saved.  storage holds the saved value
\* until it is read: a launch that reads the same value a second time (no
\* persist in between) starts from the state the first read gave.
\* The body of the try block: JSON.parse throws on a text that is not
\* JSON, threads.map throws on a value that is not an array, and the catch
\* drops the whole partial state; a parsed savedScheduled is taken as it is.
hydrateEffect(savedThreads, savedScheduled) ==
    LET threw ==
            \/ /\ ~IsNull(savedThreads)
               /\ Val(savedThreads).kind # "array"
            \/ /\ ~IsNull(savedScheduled)
               /\ Val(savedScheduled).kind = "garbage"
    IN  IF threw
        THEN [dispatched |-> FALSE, threads |-> Null,
              scheduledMessages |-> Null]
        ELSE [dispatched |-> ~IsNull(savedThreads) \/ ~IsNull(savedScheduled),
              threads |->
                  IF IsNull(savedThreads) THEN Null
                  ELSE Some(HydrateThreads(
                                JsonParseThreads(Val(savedThreads)))),
              scheduledMessages |->
                  IF IsNull(savedScheduled) THEN Null
                  ELSE Some(JsonParseMessages(Val(savedScheduled)))]

\* case "HYDRATE": the keys of the partial state replace those of the state
ReduceHydrate(current, partial) ==
    IF IsNull(partial) THEN current ELSE Val(partial)

\* The render after a HYDRATE whose scheduledMessages is not an array
\* throws (ThreadList filters the list) and React unmounts the tree.
DispatchHydrate ==
    LET e == hydrateEffect(storage, storedScheduled)
    IN  /\ phase = "mount"
        /\ threads' = IF e.dispatched
                      THEN ReduceHydrate(threads, e.threads) ELSE threads
        /\ scheduledMessages' =
              IF e.dispatched
              THEN ReduceHydrate(scheduledMessages, e.scheduledMessages)
              ELSE scheduledMessages
        /\ phase' = IF /\ e.dispatched
                       /\ ~IsNull(storedScheduled)
                       /\ Val(storedScheduled).kind # "array"
                    THEN "crashed" ELSE "running"
        /\ storage' = Null
        /\ UNCHANGED <<selectedThreadId, selectedChannelId, now, nextMsgId,
                       outerVars, nextId>>

\* the debounced persist effect writes JSON.stringify(state.threads).
\* localStorage is read only by the next launch, so a write that a later
\* write of the same session replaces is never observed: the write is taken
\* as the last one of its session ("saved": nothing is dispatched after it).
PersistThreads ==
    /\ Running
    /\ ~dirty
    /\ storage' = Some(JsonStringifyThreads(threads))
    /\ storedScheduled' = IF Len(scheduledMessages) > 0
                          THEN Some(JsonStringifyMessages(scheduledMessages))
                          ELSE Null
    /\ phase' = "saved"
    /\ UNCHANGED <<threads, selectedThreadId, selectedChannelId, now,
                   scheduledMessages, nextMsgId, fired, nextId>>
    /\ UNCHANGED regVars


\* The fire-scheduled sweep, one run of the interval callback at time t.
\* S holds the store fields the two dispatches write; msgs is
\* state.scheduledMessages as the callback closed over it.
ApplyFireScheduled_AlsoCreates(S, messageId) ==
    [S EXCEPT !.scheduledMessages = ReduceFireScheduled(@, messageId),
              !.threads = ReduceCreateThread(@, S.nextId, "c1", "prompt",
                                             PtyIdArg, 1)]

ApplyFireScheduled(S, messageId) ==
    [S EXCEPT !.scheduledMessages = ReduceFireScheduled(@, messageId)]

ApplyCreateThread(S, channelId, title, t) ==
    [S EXCEPT !.threads = ReduceCreateThread(@, S.nextId, channelId, title,
                                             PtyIdArg, t),
              !.selectedThreadId = Some(S.nextId),
              !.selectedChannelId = Some(channelId),
              !.nextId = @ + 1]

IsDue(msg, t) == t >= msg.scheduledAt

RECURSIVE FireSweepLoop(_, _, _, _)
FireSweepLoop(S, msgs, i, t) ==
    IF i > Len(msgs) THEN S
    ELSE IF IsDue(msgs[i], t)
    THEN FireSweepLoop(
             [ApplyCreateThread(ApplyFireScheduled(S, msgs[i].id),
                                msgs[i].channelId, msgs[i].prompt, t)
                EXCEPT !.fired[msgs[i].id] =
                           IF @ < MaxFired THEN @ + 1 ELSE @],
             msgs, i + 1, t)
    ELSE FireSweepLoop(S, msgs, i + 1, t)

SweepState ==
    [threads |-> threads, scheduledMessages |-> scheduledMessages,
     selectedThreadId |-> selectedThreadId,
     selectedChannelId |-> selectedChannelId,
     nextId |-> nextId, fired |-> fired]

\* the interval callback of the fire-scheduled effect; the guard on nextId
\* keeps the thread ids within ThreadIds
DispatchFireSweep ==
    LET S == FireSweepLoop(SweepState, scheduledMessages, 1, now)
    IN  /\ Running
        /\ nextId + Len(scheduledMessages) <= MaxThreads + 1
        /\ threads' = S.threads
        /\ scheduledMessages' = S.scheduledMessages
        /\ selectedThreadId' = S.selectedThreadId
        /\ selectedChannelId' = S.selectedChannelId
        /\ nextId' = S.nextId
        /\ fired' = S.fired
        /\ UNCHANGED <<now, nextMsgId, storedScheduled, storage, phase>>

\* the wall clock advances
Tick ==
    /\ now < MaxTime
    /\ now' = now + 1
    /\ UNCHANGED <<threads, selectedThreadId, selectedChannelId, nextId,
                   storage, phase, scheduledMessages, nextMsgId, outerVars>>
    /\ UNCHANGED regVars

\* ------------------------------------------------- output text
\* A chunk of output and a line of it are sequences of characters.
Rep(n, c) == [i \in 1..n |-> c]

IsSpace(c) == c \in {" ", "\r", "\n"}

\* String.prototype.trim: the part from the first to the last character
\* that is not white space
Trim(s) ==
    IF \A i \in 1..Len(s) : IsSpace(s[i]) THEN << >>
    ELSE SubSeq(s,
                CHOOSE i \in 1..Len(s) :
                    ~IsSpace(s[i]) /\ \A j \in 1..(i - 1) : IsSpace(s[j]),
                CHOOSE i \in 1..Len(s) :
                    ~IsSpace(s[i]) /\ \A j \in (i + 1)..Len(s) : IsSpace(s[j]))

\* cleaned.split(/\r?\n/), the lines from position i on
RECURSIVE SplitFrom(_, _)
SplitFrom(s, i) ==
    LET breaks == {j \in i..Len(s) : s[j] = "\n"}
    IN  IF breaks = {} THEN <<SubSeq(s, i, Len(s))>>
        ELSE LET j == CHOOSE x \in breaks : \A y \in breaks : x <= y
                 last == IF j > i /\ s[j - 1] = "\r" THEN j - 2 ELSE j - 1
             IN  <<SubSeq(s, i, last)>> \o SplitFrom(s, j + 1)

SplitLines(s) == SplitFrom(s, 1)

StartsWith(s, c) == Len(s) > 0 /\ s[1] = c

\* the string that a sequence of characters spells: the value a line has
\* when it is dispatched as a title or a preview
RECURSIVE Join(_)
Join(chars) ==
    IF Len(chars) = 0 THEN ""
    ELSE IF Len(chars) = 1 THEN chars[1]
    ELSE Join(SubSeq(chars, 1, Len(chars) \div 2))
           \o Join(SubSeq(chars, Len(chars) \div 2 + 1, Len(chars)))

\* s.length > n ? `${s.slice(0, n)}...` : s
Truncate(s, n) ==
    IF Len(s) > n THEN SubSeq(s, 1, n) \o <<".", ".", ".">> ELSE s

\* the for loop of onData over the lines of a chunk: push the trimmed
\* non-empty lines, shift when the buffer holds more than RingCapacity
RECURSIVE PushLines_NoShift(_, _, _)
PushLines_NoShift(buf, lines, i) ==
    IF i > Len(lines) THEN buf
    ELSE LET trimmed == Trim(lines[i])
         IN  IF Len(trimmed) > 0
             THEN PushLines_NoShift(Append(buf, trimmed), lines, i + 1)
             ELSE PushLines_NoShift(buf, lines, i + 1)

RECURSIVE PushLines(_, _, _)
PushLines(buf, lines, i) ==
    IF i > Len(lines) THEN buf
    ELSE LET trimmed == Trim(lines[i])
             pushed == Append(buf, trimmed)
         IN  IF Len(trimmed) > 0
             THEN PushLines(IF Len(pushed) > RingCapacity
                            THEN Tail(pushed) ELSE pushed, lines, i + 1)
             ELSE PushLines(buf, lines, i + 1)

\* autoRunCommandRef.current ?? "" as characters
CurrentCmd == <<"c", "l", "a", "u", "d", "e">>

\* the condition of the auto-title loop on a trimmed line; the two
\* box-drawing characters are written by their code points
Meaningful(trimmed) ==
    /\ Len(trimmed) > TitleMinLen
    /\ ~StartsWith(trimmed, "$")
    /\ ~StartsWith(trimmed, "%")
    /\ trimmed # CurrentCmd
    /\ ~StartsWith(trimmed, "U+256D")
    /\ ~StartsWith(trimmed, "U+2570")
    /\ ~StartsWith(trimmed, ">")

\* the first line of the chunk that passes, trimmed; Null when none does
RECURSIVE FirstMeaningful_Last(_, _)
FirstMeaningful_Last(lines, i) ==
    IF i > Len(lines) THEN Null
    ELSE LET rest == FirstMeaningful_Last(lines, i + 1)
         IN  IF ~IsNull(rest) THEN rest
             ELSE IF Meaningful(Trim(lines[i])) THEN Some(Trim(lines[i]))
             ELSE Null

RECURSIVE FirstMeaningful(_, _)
FirstMeaningful(lines, i) ==
    IF i > Len(lines) THEN Null
    ELSE IF Meaningful(Trim(lines[i])) THEN Some(Trim(lines[i]))
    ELSE FirstMeaningful(lines, i + 1)

\* ------------------------------------------------- session registry
\* state.autoRunCommand as loadAutoRunCommand() returns it by default
AutoRunCommand == Some("claude")

\* the registry as one value, so that the effects can be composed
Reg == [instances |-> instances, objs |-> objs, procs |-> procs,
        timers |-> timers]

\* IPty.kill(): ends the process if it is still alive
KillProc(ps, p) ==
    [ps EXCEPT ![p].state = IF @ = "live" THEN "killed" ELSE @]

\* IPty.write(data); a resize(cols, rows) is recorded as "resize"
WriteProc(ps, p, data) ==
    [ps EXCEPT ![p].written = Append(@, data)]

\* spawnPty(instance, threadId, cwd, pendingPrompt): spawn, store the
\* handle, arm the auto-run timer, attach the four listeners
spawnPty(R, o, tid, pendingPrompt) ==
    LET p == Len(R.procs) + 1
    IN  [R EXCEPT
           !.procs = Append(@, [tid |-> tid, state |-> "live",
                                written |-> << >>, chunks |-> 0]),
           !.objs = [@ EXCEPT ![o].pty = Some(p), ![o].listening = TRUE],
           !.timers = IF IsNull(AutoRunCommand) THEN @
                      ELSE @ \cup {[kind |-> "autorun", obj |-> o,
                                    prompt |-> pendingPrompt, spawn |-> p]}]

\* createInstance(threadId, cwd, pendingPrompt, skipPty)
createInstance(R, tid, pendingPrompt, skipPty) ==
    LET o == Len(R.objs) + 1
        R1 == [R EXCEPT !.objs = Append(@, [tid |-> tid,
                                            pty |-> Null,
                                            listening |-> FALSE,
                                            claudeStarted |-> FALSE,
                                            promptSent |-> FALSE,
                                            outputLines |-> << >>,
                                            previewTimer |-> FALSE,
                                            autoTitleDone |-> FALSE,
                                            killedNotice |-> FALSE,
                                            disposed |-> FALSE])]
        R2 == IF skipPty THEN R1 ELSE spawnPty(R1, o, tid, pendingPrompt)
    IN  [R2 EXCEPT !.instances = [@ EXCEPT ![tid] = Some(o)]]

\* pendingPrompt of the create effect
PendingPromptOf(thread) ==
    IF thread.title # "" /\ thread.title # DefaultTitle
    THEN Some(thread.title) ELSE Null

\* effect 1: create instances for terminal threads with ptyRunning
RECURSIVE CreateLoop_NoHasCheck(_, _, _)
CreateLoop_NoHasCheck(R, ths, i) ==
    IF i > Len(ths) THEN R
    ELSE LET t == ths[i]
             R1 == IF t.threadType = "terminal" /\ t.ptyRunning
                   THEN createInstance(R, t.id, PendingPromptOf(t), FALSE)
                   ELSE R
         IN  CreateLoop_NoHasCheck(R1, ths, i + 1)

CreateEffect_NoHasCheck(R, ths) == CreateLoop_NoHasCheck(R, ths, 1)

RECURSIVE CreateLoop(_, _, _)
CreateLoop(R, ths, i) ==
    IF i > Len(ths) THEN R
    ELSE LET t == ths[i]
             R1 == IF /\ t.threadType = "terminal"
                      /\ IsNull(R.instances[t.id])
                      /\ t.ptyRunning
                   THEN createInstance(R, t.id, PendingPromptOf(t), FALSE)
                   ELSE R
         IN  CreateLoop(R1, ths, i + 1)

CreateEffect(R, ths) == CreateLoop(R, ths, 1)

\* effect 2: show/hide; lazily create an instance without a PTY for the
\* selected thread (the visibility of the panes is not modelled)
ShowHideEffect_SpawnsPty(R, ths, selId) ==
    IF /\ ~IsNull(selId)
       /\ IsNull(R.instances[Val(selId)])
       /\ HasThread(ths, Val(selId))
       /\ ThreadOf(ths, Val(selId)).threadType = "terminal"
    THEN createInstance(R, Val(selId), Null, FALSE)
    ELSE R

ShowHideEffect(R, ths, selId) ==
    IF /\ ~IsNull(selId)
       /\ IsNull(R.instances[Val(selId)])
       /\ HasThread(ths, Val(selId))
       /\ ThreadOf(ths, Val(selId)).threadType = "terminal"
    THEN createInstance(R, Val(selId), Null, TRUE)
    ELSE R

\* effect 3: kill the PTY of every thread that is not ptyRunning and write
\* the "[Terminal killed]" notice into its terminal (killedNotice; the
\* terminal.clear() of handleRestart takes it out again)
RECURSIVE KillLoop_NoKill(_, _, _)
KillLoop_NoKill(R, ths, i) ==
    IF i > Len(ths) THEN R
    ELSE LET t == ths[i]
             io == R.instances[t.id]
             R1 == IF /\ ~t.ptyRunning
                      /\ ~IsNull(io)
                      /\ ~IsNull(R.objs[Val(io)].pty)
                   THEN [R EXCEPT
                           !.objs = [@ EXCEPT ![Val(io)].listening = FALSE,
                                              ![Val(io)].pty = Null,
                                              ![Val(io)].killedNotice = TRUE]]
                   ELSE R
         IN  KillLoop_NoKill(R1, ths, i + 1)

KillEffect_NoKill(R, ths) == KillLoop_NoKill(R, ths, 1)

\* the effect writes the notice and leaves the listeners, the process and
\* the handle as they are
RECURSIVE KillLoop_KeepListeners(_, _, _)
KillLoop_KeepListeners(R, ths, i) ==
    IF i > Len(ths) THEN R
    ELSE LET t == ths[i]
             io == R.instances[t.id]
             R1 == IF /\ ~t.ptyRunning
                      /\ ~IsNull(io)
                      /\ ~IsNull(R.objs[Val(io)].pty)
                   THEN [R EXCEPT
                           !.objs = [@ EXCEPT ![Val(io)].killedNotice = TRUE]]
                   ELSE R
         IN  KillLoop_KeepListeners(R1, ths, i + 1)

KillEffect_KeepListeners(R, ths) == KillLoop_KeepListeners(R, ths, 1)

RECURSIVE KillLoop(_, _, _)
KillLoop(R, ths, i) ==
    IF i > Len(ths) THEN R
    ELSE LET t == ths[i]
             io == R.instances[t.id]
             R1 == IF /\ ~t.ptyRunning
                      /\ ~IsNull(io)
                      /\ ~IsNull(R.objs[Val(io)].pty)
                   THEN [R EXCEPT
                           !.procs = KillProc(@, Val(R.objs[Val(io)].pty)),
                           !.objs = [@ EXCEPT ![Val(io)].listening = FALSE,
                                              ![Val(io)].pty = Null,
                                              ![Val(io)].killedNotice = TRUE]]
                   ELSE R
         IN  KillLoop(R1, ths, i + 1)

KillEffect(R, ths) == KillLoop(R, ths, 1)

\* the three effects of one commit, in declaration order
RunEffects(R, ths, selId) ==
    KillEffect(ShowHideEffect(CreateEffect(R, ths), ths, selId), ths)

\* the cleanup of the unmount effect
RECURSIVE CleanupLoop(_, _)
CleanupLoop(R, ids) ==
    IF ids = {} THEN R
    ELSE LET id == CHOOSE x \in ids : TRUE
             io == R.instances[id]
             R1 == IF IsNull(io) THEN R
                   ELSE LET o == Val(io)
                        IN [R EXCEPT
                              !.timers = {tm \in @ : ~(tm.kind = "preview"
                                                       /\ tm.obj = o)},
                              !.procs = IF IsNull(R.objs[o].pty) THEN @
                                        ELSE KillProc(@, Val(R.objs[o].pty)),
                              !.objs = [@ EXCEPT ![o].listening = FALSE,
                                                 ![o].disposed = TRUE]]
         IN  CleanupLoop(R1, ids \ {id})

Cleanup(R) ==
    [CleanupLoop(R, ThreadIds) EXCEPT
        !.instances = [id \in ThreadIds |-> Null]]

SetReg(R) ==
    /\ instances' = R.instances
    /\ objs' = R.objs
    /\ procs' = R.procs
    /\ timers' = R.timers

\* a discrete (user) event: React renders and runs the effects before the
\* event returns
Commit(R) ==
    /\ SetReg(RunEffects(R, threads', selectedThreadId'))
    /\ dirty' = FALSE

\* ------------------------------------------------- app lifecycle
\* TerminalManager unmounts (the app closes)
Unmount ==
    /\ phase \in {"running", "saved"}
    /\ phase' = "closed"
    /\ SetReg(Cleanup(Reg))
    /\ dirty' = FALSE
    /\ UNCHANGED <<threads, selectedThreadId, selectedChannelId, now, scheduledMessages, nextMsgId, outerVars, nextId,
                   storage>>

\* the app starts again: a new page, useReducer(reducer, initialState).
\* Closing the window discards the page whether or not React unmounted.
Launch ==
    /\ phase \in {"saved", "closed", "crashed"}
    /\ phase' = "mount"
    /\ threads' = << >>
    /\ selectedThreadId' = Null
    /\ selectedChannelId' = Null
    /\ instances' = [id \in ThreadIds |-> Null]
    /\ objs' = << >>
    /\ procs' = << >>
    /\ timers' = {}
    /\ dirty' = FALSE
    /\ scheduledMessages' = << >>
    /\ UNCHANGED <<now, nextMsgId, outerVars, nextId, storage>>

\* ------------------------------------------------- the store alone
\* The reducer under any order of dispatches; the registry stays as mounted.
SnoozeArgs == {Null, Some(now + 1)}
UiStatuses == {"active", "done", "snoozed"}

StoreCreateThread(channelId, title) ==
    DispatchCreateThread(channelId, title) /\ UNCHANGED regVars
StoreCreateChatThread(channelId) ==
    DispatchCreateChatThread(channelId) /\ UNCHANGED regVars
StoreSelectThread(id) ==
    DispatchSelectThread(id) /\ UNCHANGED regVars
StoreSetThreadStatus(id, status, snoozeUntil) ==
    DispatchSetThreadStatus(id, status, snoozeUntil) /\ UNCHANGED regVars
StoreMarkActivity(id) ==
    DispatchMarkActivity(id) /\ UNCHANGED regVars
StoreSelectChannel(channelId) ==
    DispatchSelectChannel(channelId) /\ UNCHANGED regVars
StoreMarkAllRead ==
    DispatchMarkAllRead /\ UNCHANGED regVars
StoreWakeSnoozed ==
    DispatchWakeSnoozed /\ UNCHANGED regVars
StoreKillThreadPty(id) ==
    DispatchKillThreadPty(id) /\ UNCHANGED regVars
StoreSetPtyExited(id, exitCode) ==
    DispatchSetPtyExited(id, exitCode) /\ UNCHANGED regVars
StoreSetPtyRunning(id) ==
    DispatchSetPtyRunning(id) /\ UNCHANGED regVars
StoreAddChatMessage(id) ==
    DispatchAddChatMessage(id) /\ UNCHANGED regVars
StoreRenameThread(id, title) ==
    DispatchRenameThread(id, title) /\ UNCHANGED regVars
StoreDeleteThread(id) ==
    DispatchDeleteThread(id) /\ UNCHANGED regVars
StoreHydrate ==
    DispatchHydrate /\ UNCHANGED regVars
StoreSetOutputPreview(id, preview) ==
    DispatchSetOutputPreview(id, preview) /\ UNCHANGED regVars
StoreScheduleMessage(prompt, scheduledAt) ==
    DispatchScheduleMessage(prompt, scheduledAt) /\ UNCHANGED regVars
StoreCancelScheduled(messageId) ==
    DispatchCancelScheduled(messageId) /\ UNCHANGED regVars
StoreFireSweep ==
    DispatchFireSweep /\ UNCHANGED regVars

\* Spec: selection, unread, snooze and status.  The dispatches left out
\* (SET_PTY_EXITED, SET_PTY_RUNNING, RENAME_THREAD) write only ptyRunning,
\* ptyExitCode, title and autoTitled, which no dispatch of Next reads.
Next ==
    \/ \E c \in Channels : StoreCreateThread(c, DefaultTitle)
    \/ \E c \in Channels : StoreCreateChatThread(c)
    \/ \E id \in ThreadIds : StoreSelectThread(id)
    \/ \E id \in ThreadIds, st \in UiStatuses, su \in SnoozeArgs :
          StoreSetThreadStatus(id, st, su)
    \/ \E id \in ThreadIds : StoreMarkActivity(id)
    \/ \E c \in Channels : StoreSelectChannel(c)
    \/ StoreMarkAllRead
    \/ StoreWakeSnoozed
    \/ \E id \in ThreadIds : StoreKillThreadPty(id)
    \/ \E id \in ThreadIds : StoreAddChatMessage(id)
    \/ \E id \in ThreadIds : StoreDeleteThread(id)
    \/ StoreHydrate
    \/ PersistThreads
    \/ Launch
    \/ Tick

Spec == Init /\ [][Next]_vars

\* PtySpec: the session-linkage and title fields under any order of the
\* dispatches that write them, at one instant of the clock.
PtyNext ==
    \/ \E c \in Channels, title \in Titles : StoreCreateThread(c, title)
    \/ \E c \in Channels : StoreCreateChatThread(c)
    \/ \E id \in ThreadIds : StoreSelectThread(id)
    \/ \E c \in Channels : StoreSelectChannel(c)
    \/ \E id \in ThreadIds : StoreKillThreadPty(id)
    \/ \E id \in ThreadIds : StoreSetPtyExited(id, SelfExitCode)
    \/ \E id \in ThreadIds : StoreSetPtyRunning(id)
    \/ \E id \in ThreadIds : StoreRenameThread(id, "renamed")
    \/ \E id \in ThreadIds : StoreDeleteThread(id)
    \/ StoreHydrate
    \/ PersistThreads
    \/ Launch

PtySpec == Init /\ [][PtyNext]_vars

\* ------------------------------------------------- the app with its registry
\* User events commit synchronously (dispatch, render, effects); callbacks
\* of processes and timers dispatch and leave the effects to a later flush.

\* handleCreateTerminal / the prompt box / the fire-scheduled sweep
CreateThread(channelId, title) ==
    /\ Len(procs) < MaxProcs
    /\ DispatchCreateThread(channelId, title)
    /\ Commit(Reg)

\* handleCreateChat
CreateChatThread(channelId) ==
    /\ DispatchCreateChatThread(channelId)
    /\ Commit(Reg)

\* handleSelectThread, arrow keys, the restore-selection effect
SelectThread(id) ==
    /\ DispatchSelectThread(id)
    /\ Commit(Reg)

\* the sidebar
SelectChannel(channelId) ==
    /\ DispatchSelectChannel(channelId)
    /\ Commit(Reg)

\* context menu "Kill Terminal", offered for terminal threads
KillThreadPty(id) ==
    /\ HasThread(threads, id)
    /\ ThreadOf(threads, id).threadType = "terminal"
    /\ DispatchKillThreadPty(id)
    /\ Commit(Reg)

\* the user renames a thread: Enter or blur of the inline title editor,
\* commitRename of the terminal header; the title differs from the old one
RenameThread(id, title) ==
    /\ HasThread(threads, id)
    /\ ThreadOf(threads, id).title # title
    /\ DispatchRenameThread(id, title)
    /\ Commit(Reg)

\* context menu "Delete", Backspace on the selected thread
DeleteThread(id) ==
    /\ HasThread(threads, id)
    /\ DispatchDeleteThread(id)
    /\ Commit(Reg)

\* ExitBanner is rendered for the selected thread with ptyExitCode !== null
BannerShown(id) ==
    /\ selectedThreadId = Some(id)
    /\ HasThread(threads, id)
    /\ ~IsNull(ThreadOf(threads, id).ptyExitCode)

\* handleRestart(threadId): what it makes of the registry and the thread
\* list; dispatched tells whether it got past the early return
handleRestart_KeepFlags(R, ths, id) ==
    IF IsNull(R.instances[id])
    THEN [reg |-> R, threads |-> ths, dispatched |-> FALSE]
    ELSE LET o == Val(R.instances[id])
             R1 == [R EXCEPT !.objs =
                      [@ EXCEPT ![o].listening = FALSE,
                                ![o].killedNotice = FALSE]]
         IN  [reg |-> spawnPty(R1, o, id, Null),
              threads |-> ReduceSetPtyRunning(ths, id),
              dispatched |-> TRUE]

handleRestart(R, ths, id) ==
    IF IsNull(R.instances[id])
    THEN [reg |-> R, threads |-> ths, dispatched |-> FALSE]
    ELSE LET o == Val(R.instances[id])
             R1 == [R EXCEPT !.objs =
                      [@ EXCEPT ![o].listening = FALSE,
                                ![o].killedNotice = FALSE,
                                ![o].claudeStarted = FALSE,
                                ![o].promptSent = FALSE]]
         IN  [reg |-> spawnPty(R1, o, id, Null),
              threads |-> ReduceSetPtyRunning(ths, id),
              dispatched |-> TRUE]

\* the Restart button of the banner
Restart(id) ==
    /\ Running
    /\ BannerShown(id)
    /\ LET h == handleRestart(Reg, threads, id)
       IN  IF ~h.dispatched
           THEN UNCHANGED vars
           ELSE /\ Len(procs) < MaxProcs
                /\ threads' = h.threads
                /\ UNCHANGED <<selectedThreadId, selectedChannelId, now,
                               scheduledMessages, nextMsgId, outerVars,
                               nextId, storage, phase>>
                /\ Commit(h.reg)

\* a process ends by itself; pty.onExit dispatches SET_PTY_EXITED while the
\* listener is attached
ProcExit(p) ==
    /\ Running
    /\ p \in DOMAIN procs
    /\ procs[p].state = "live"
    /\ procs' = [procs EXCEPT ![p].state = "exited"]
    /\ IF \E o \in DOMAIN objs : objs[o].pty = Some(p) /\ objs[o].listening
       THEN /\ threads' = ReduceSetPtyExited(threads, procs[p].tid,
                                             SelfExitCode)
            /\ dirty' = TRUE
       ELSE UNCHANGED <<threads, dirty>>
    /\ UNCHANGED <<selectedThreadId, selectedChannelId, now, scheduledMessages, nextMsgId, outerVars, nextId, storage,
                   phase, instances, objs, timers>>

\* spawn("/bin/zsh", ...) of spawnPty fails to start the shell of process
\* p. spawnPty has no try / catch and tests nothing on the handle, so what
\* follows is what the tauri-pty library makes of the failure: it fires
\* the onExit listener (surfaced), or the handle stays silent for good
SpawnFails(p, surfaced) ==
    /\ Running
    /\ p \in DOMAIN procs
    /\ procs[p].state = "live"
    /\ procs[p].written = << >>
    /\ procs[p].chunks = 0
    /\ procs' = [procs EXCEPT ![p].state = "failed"]
    /\ IF /\ surfaced
          /\ \E o \in DOMAIN objs : objs[o].pty = Some(p) /\ objs[o].listening
       THEN /\ threads' = ReduceSetPtyExited(threads, procs[p].tid,
                                             SelfExitCode)
            /\ dirty' = TRUE
       ELSE UNCHANGED <<threads, dirty>>
    /\ UNCHANGED <<selectedThreadId, selectedChannelId, now,
                   scheduledMessages, nextMsgId, outerVars, nextId, storage,
                   phase, instances, objs, timers>>

\* the listeners forward to the last process spawned for the thread, with
\* no look at instance.pty and never disposed
TerminalEvent_NoHandleCheck(o, call) ==
    /\ Running
    /\ o \in DOMAIN objs
    /\ \E p \in DOMAIN procs :
          /\ procs[p].tid = objs[o].tid
          /\ \A q \in DOMAIN procs : procs[q].tid = objs[o].tid => q <= p
          /\ Len(procs[p].written) < MaxCalls
          /\ procs' = WriteProc(procs, p, call)
    /\ UNCHANGED <<storeVars, instances, objs, timers, dirty>>

\* instance.terminal.onData / onResize of instance o: the user types into
\* the terminal (call = "input") or the terminal is resized ("resize");
\* the listeners are in instance.disposables
TerminalEvent(o, call) ==
    /\ Running
    /\ o \in DOMAIN objs
    /\ objs[o].listening
    /\ ~IsNull(objs[o].pty)
    /\ Len(procs[Val(objs[o].pty)].written) < MaxCalls
    /\ procs' = WriteProc(procs, Val(objs[o].pty), call)
    /\ UNCHANGED <<storeVars, instances, objs, timers, dirty>>

\* the 500 ms auto-run timer of spawnPty fires
AutoRunTimer(tm) ==
    /\ tm \in timers
    /\ tm.kind = "autorun"
    /\ phase \in {"running", "closed"}
    /\ LET o == tm.obj
       IN  IF ~IsNull(objs[o].pty) /\ ~objs[o].claudeStarted
           THEN /\ objs' = [objs EXCEPT ![o].claudeStarted = TRUE]
                /\ procs' = WriteProc(procs, Val(objs[o].pty), "cmd")
                /\ timers' = (timers \ {tm}) \cup
                             (IF IsNull(tm.prompt) THEN {}
                              ELSE {[tm EXCEPT !.kind = "prompt"]})
           ELSE /\ timers' = timers \ {tm}
                /\ UNCHANGED <<objs, procs>>
    /\ UNCHANGED <<threads, selectedThreadId, selectedChannelId, now, scheduledMessages, nextMsgId, outerVars, nextId,
                   storage, phase, instances, dirty>>

\* the 2500 ms prompt timer fires
PromptTimer(tm) ==
    /\ tm \in timers
    /\ tm.kind = "prompt"
    /\ phase \in {"running", "closed"}
    /\ LET o == tm.obj
       IN  IF ~IsNull(objs[o].pty) /\ ~objs[o].promptSent
           THEN /\ objs' = [objs EXCEPT ![o].promptSent = TRUE]
                /\ procs' = WriteProc(procs, Val(objs[o].pty), "prompt")
           ELSE UNCHANGED <<objs, procs>>
    /\ timers' = timers \ {tm}
    /\ UNCHANGED <<threads, selectedThreadId, selectedChannelId, now, scheduledMessages, nextMsgId, outerVars, nextId,
                   storage, phase, instances, dirty>>

\* if (!instance.previewTimer) instance.previewTimer = setTimeout(..., 2000):
\* the timers after a chunk of process p reached instance o; pending is
\* instance.previewTimer, n tells the timers of one process apart
ArmPreview_Always(tms, o, p, pending, n) ==
    tms \cup {[kind |-> "preview", obj |-> o, prompt |-> Null,
                spawn |-> p, chunk |-> n]}

ArmPreview(tms, o, p, pending, n) ==
    IF pending THEN tms
    ELSE tms \cup {[kind |-> "preview", obj |-> o, prompt |-> Null,
                     spawn |-> p, chunk |-> n]}

\* if (selectedIdRef.current !== threadId): whether a chunk of thread tid
\* dispatches MARK_ACTIVITY
MarksActivity_Always(selected, tid) == TRUE

MarksActivity(selected, tid) == selected # Some(tid)

\* the session looks for a title without looking at thread.autoTitled
AutoTitleWanted_IgnoresRename(obj, ths, tid) ==
    /\ ~obj.autoTitleDone
    /\ obj.claudeStarted
    /\ HasThread(ths, tid)

\* if (!instance.autoTitleDone && instance.claudeStarted) with
\* threadsRef.current.find(...)?.autoTitled: the session still looks for a
\* title. threadsRef.current is state.threads of the last render
AutoTitleWanted(obj, ths, tid) ==
    /\ ~obj.autoTitleDone
    /\ obj.claudeStarted
    /\ HasThread(ths, tid)
    /\ ThreadOf(ths, tid).autoTitled

\* pty.onData(rawData) of the process p that an instance listens to: the
\* ring buffer, the auto-title, the preview timer, MARK_ACTIVITY.
\* chunk is the output after stripAnsi.
ProcData(p, chunk) ==
    /\ Running
    /\ p \in DOMAIN procs
    /\ procs[p].state = "live"
    /\ procs[p].chunks < MaxChunks
    /\ \E o \in DOMAIN objs : objs[o].pty = Some(p) /\ objs[o].listening
    /\ procs' = [procs EXCEPT ![p].chunks = @ + 1]
    /\ LET o == CHOOSE x \in DOMAIN objs :
                    objs[x].pty = Some(p) /\ objs[x].listening
           tid == procs[p].tid
           split == SplitLines(chunk)
           titleLine ==
               IF AutoTitleWanted(objs[o], threads, tid)
               THEN FirstMeaningful(split, 1) ELSE Null
           renamed ==
               IF IsNull(titleLine) THEN threads
               ELSE ReduceRenameThread(
                        threads, tid,
                        Join(Truncate(Val(titleLine), TitleMax)))
           marks == MarksActivity(selectedThreadId, tid)
       IN  /\ objs' = [objs EXCEPT
                         ![o].outputLines =
                             PushLines(objs[o].outputLines, split, 1),
                         ![o].autoTitleDone = @ \/ ~IsNull(titleLine),
                         ![o].previewTimer = TRUE]
           /\ timers' = ArmPreview(timers, o, p, objs[o].previewTimer,
                                    procs[p].chunks)
           /\ threads' = IF marks
                         THEN ReduceMarkActivity(renamed, tid,
                                                 selectedThreadId, now)
                         ELSE renamed
           /\ dirty' = (dirty \/ marks \/ ~IsNull(titleLine))
    /\ UNCHANGED <<selectedThreadId, selectedChannelId, now,
                   scheduledMessages, nextMsgId, outerVars, nextId, storage,
                   phase, instances>>

\* the 2000 ms preview timer of an instance fires
PreviewTimer(tm) ==
    /\ tm \in timers
    /\ tm.kind = "preview"
    /\ Running
    /\ LET o == tm.obj
           buf == objs[o].outputLines
       IN  /\ objs' = [objs EXCEPT ![o].previewTimer = FALSE]
           /\ IF buf # << >>
              THEN /\ threads' = ReduceSetOutputPreview(
                                     threads, objs[o].tid,
                                     Join(Truncate(buf[Len(buf)], PreviewMax)))
                   /\ dirty' = TRUE
              ELSE UNCHANGED <<threads, dirty>>
    /\ timers' = timers \ {tm}
    /\ UNCHANGED <<selectedThreadId, selectedChannelId, now,
                   scheduledMessages, nextMsgId, outerVars, nextId, storage,
                   phase, instances, procs>>

\* React runs the effects of a render that a callback's dispatch caused
FlushEffects ==
    /\ Running
    /\ dirty
    /\ SetReg(RunEffects(Reg, threads, selectedThreadId))
    /\ dirty' = FALSE
    /\ UNCHANGED storeVars

\* the hydrate effect after mount
Hydrate ==
    /\ DispatchHydrate
    /\ dirty' = TRUE
    /\ UNCHANGED <<instances, objs, procs, timers>>

RegistryNext ==
    \/ \E c \in Channels, title \in Titles : CreateThread(c, title)
    \/ \E c \in Channels : CreateChatThread(c)
    \/ \E id \in ThreadIds : SelectThread(id)
    \/ \E c \in Channels : SelectChannel(c)
    \/ \E id \in ThreadIds : KillThreadPty(id)
    \/ \E id \in ThreadIds : DeleteThread(id)
    \/ \E id \in ThreadIds : Restart(id)
    \/ \E p \in DOMAIN procs : ProcExit(p)
    \/ \E tm \in timers : AutoRunTimer(tm)
    \/ \E tm \in timers : PromptTimer(tm)
    \/ FlushEffects
    \/ Hydrate
    \/ PersistThreads
    \/ Unmount
    \/ Launch

RegistrySpec == Init /\ [][RegistryNext]_vars

\* the callbacks the event loop is bound to run: pending effects, armed
\* timers, the mount effect.  User events, process exits and closing the
\* app are not.
FairRegistrySpec ==
    /\ RegistrySpec
    /\ WF_vars(FlushEffects)
    /\ WF_vars(Hydrate)
    /\ WF_vars(\E tm \in timers : AutoRunTimer(tm))
    /\ WF_vars(\E tm \in timers : PromptTimer(tm))

\* ------------------------------------------------- properties
LastReadOrZero(t) == IF IsNull(t.lastReadAt) THEN 0 ELSE Val(t.lastReadAt)
IsSelected(t) == selectedThreadId = Some(t.id)

\* C1: every active thread that is not selected and has
\* lastActivityAt > lastReadAt has hasUnread = true.
UnreadInvariant ==
    \A i \in Idx(threads) :
        ( /\ threads[i].status = "active"
          /\ ~IsSelected(threads[i])
          /\ threads[i].lastActivityAt > LastReadOrZero(threads[i]) )
        => threads[i].hasUnread

\* C2: the selected thread, if it exists, has hasUnread = false.
SelectedNotUnread ==
    \A i \in Idx(threads) : IsSelected(threads[i]) => ~threads[i].hasUnread

\* C2 witness: the selected thread saw activity after it was last read.
SelectedWithLaterActivity ==
    \E i \in Idx(threads) :
        /\ IsSelected(threads[i])
        /\ threads[i].lastActivityAt > LastReadOrZero(threads[i])

\* C3: snoozeUntil is non-null only while status is snoozed, and a step
\* that changes a thread's status leaves it with snoozeUntil cleared
\* (unless the new status is snoozed) and snoozeDue = false.
SnoozeUntilOnlyWhenSnoozed ==
    /\ [](\A i \in Idx(threads) :
            ~IsNull(threads[i].snoozeUntil) => threads[i].status = "snoozed")
    /\ [][\A i \in Idx(threads), j \in Idx(threads') :
            ( /\ threads[i].id = threads'[j].id
              /\ threads[i].status # threads'[j].status
              /\ phase = "running" /\ phase' = "running" )
            => /\ ~threads'[j].snoozeDue
               /\ (threads'[j].status # "snoozed"
                     => IsNull(threads'[j].snoozeUntil))]_vars

\* C4: a thread with ptyExitCode != null has ptyRunning = false.
ExitCodeImpliesNotRunning ==
    \A i \in Idx(threads) :
        ~IsNull(threads[i].ptyExitCode) => ~threads[i].ptyRunning

\* C4 witness: a hydrated thread next to one whose process exited.
HydratedAndExitedThreads ==
    \E i \in Idx(threads), j \in Idx(threads) :
        /\ threads[i].ptyExitCode = Some(HydratedCode)
        /\ threads[j].ptyExitCode = Some(SelfExitCode)

\* the live TerminalInstance objects made for thread id
LiveObjs(id) == {o \in DOMAIN objs : objs[o].tid = id /\ ~objs[o].disposed}
\* the live processes spawned for thread id
LiveProcs(id) == {p \in DOMAIN procs :
                     procs[p].tid = id /\ procs[p].state = "live"}

\* C5: at most one session instance exists per thread id, and it is the
\* one the registry holds.
OneInstancePerThread ==
    \A id \in ThreadIds :
        /\ Cardinality(LiveObjs(id)) <= 1
        /\ \A o \in LiveObjs(id) : instances[id] = Some(o)

\* C5 witness: a hydrated thread with a lazily created instance (no PTY)
\* next to a created thread with an eagerly created one.
LazyAndEagerInstances ==
    \E i \in Idx(threads), j \in Idx(threads) :
        /\ threads[i].ptyExitCode = Some(HydratedCode)
        /\ ~IsNull(instances[threads[i].id])
        /\ IsNull(objs[Val(instances[threads[i].id])].pty)
        /\ threads[j].ptyRunning
        /\ ~IsNull(instances[threads[j].id])
        /\ ~IsNull(objs[Val(instances[threads[j].id])].pty)

\* C6: no thread id has two live processes, every live process is held by
\* its thread's registered instance, and Restart is offered for a thread
\* only while it has no live process.
OneLiveProcessPerThread ==
    \A id \in ThreadIds :
        /\ Cardinality(LiveProcs(id)) <= 1
        /\ \A p \in LiveProcs(id) :
              /\ ~IsNull(instances[id])
              /\ objs[Val(instances[id])].pty = Some(p)
        /\ (phase = "running" /\ BannerShown(id)) => LiveProcs(id) = {}

\* C6 witness: a thread killed and restarted: its first process is
\* killed, its second is live.
KilledThenRestarted ==
    \E p \in DOMAIN procs, q \in DOMAIN procs :
        /\ procs[p].tid = procs[q].tid
        /\ procs[p].state = "killed"
        /\ procs[q].state = "live"

\* a registry entry for a thread that is not in the store
Orphaned(id) == ~IsNull(instances[id]) /\ ~HasThread(threads, id)

\* C7: after DeleteThread(id), the session of id is eventually disposed:
\* no registry entry stays forever for an id that is not in the store.
DeletedSessionDisposed ==
    \A id \in ThreadIds : Orphaned(id) ~> ~Orphaned(id)

\* C8: once the sessions are torn down, no timer armed for one of them
\* writes to a process or dispatches to the store.
NoTimerAfterTeardown ==
    [][(phase = "closed" /\ phase' = "closed")
          => (procs' = procs /\ threads' = threads)]_vars

\* C9: SelectThread(id) on an existing thread selects it, clears hasUnread
\* and snoozeDue, sets lastReadAt = now and changes nothing else.
SelectThreadEffect ==
    [][\A id \in ThreadIds :
          (StoreSelectThread(id) /\ HasThread(threads, id))
          => /\ selectedThreadId' = Some(id)
             /\ Idx(threads') = Idx(threads)
             /\ \A i \in Idx(threads) :
                   IF threads[i].id = id
                   THEN /\ ~threads'[i].hasUnread
                        /\ ~threads'[i].snoozeDue
                        /\ threads'[i].lastReadAt = Some(now)
                        /\ [threads'[i] EXCEPT !.hasUnread = FALSE,
                                               !.snoozeDue = FALSE,
                                               !.lastReadAt = Null]
                           = [threads[i] EXCEPT !.hasUnread = FALSE,
                                                !.snoozeDue = FALSE,
                                                !.lastReadAt = Null]
                   ELSE threads'[i] = threads[i]]_vars

\* C9 witness: a snoozed thread whose snooze has elapsed is selected and
\* read now, with snoozeDue clear, next to another thread that is unread.
SelectedElapsedSnooze ==
    \E i \in Idx(threads), j \in Idx(threads) :
        /\ IsSelected(threads[i])
        /\ threads[i].status = "snoozed"
        /\ threads[i].snoozeUntil = Some(now)
        /\ ~threads[i].snoozeDue
        /\ threads[i].lastReadAt = Some(now)
        /\ threads[j].hasUnread

\* C10: MarkActivity(id) on an existing thread sets lastActivityAt = now
\* and hasUnread = FALSE for the selected thread, else
\* (lastActivityAt > lastReadAt, null read as 0); nothing else changes.
MarkActivityEffect ==
    [][\A id \in ThreadIds :
          (StoreMarkActivity(id) /\ HasThread(threads, id))
          => /\ selectedThreadId' = selectedThreadId
             /\ Idx(threads') = Idx(threads)
             /\ \A i \in Idx(threads) :
                   IF threads[i].id = id
                   THEN /\ threads'[i].lastActivityAt = now
                        /\ threads'[i].hasUnread =
                              IF selectedThreadId = Some(id) THEN FALSE
                              ELSE now > LastReadOrZero(threads[i])
                        /\ [threads'[i] EXCEPT !.hasUnread = FALSE,
                                               !.lastActivityAt = 0]
                           = [threads[i] EXCEPT !.hasUnread = FALSE,
                                                !.lastActivityAt = 0]
                   ELSE threads'[i] = threads[i]]_vars

\* C10 witness: activity now on the selected thread (not unread) and on an
\* unselected one (unread), both read before now.
ActivityOnSelectedAndUnselected ==
    \E i \in Idx(threads), j \in Idx(threads) :
        /\ IsSelected(threads[i])
        /\ threads[i].lastActivityAt = now
        /\ LastReadOrZero(threads[i]) < now
        /\ ~threads[i].hasUnread
        /\ ~IsSelected(threads[j])
        /\ threads[j].lastActivityAt = now
        /\ LastReadOrZero(threads[j]) < now
        /\ threads[j].hasUnread

\* a thread the wake sweep at time t is to flag
WakeQualifies(th, t) ==
    /\ th.status = "snoozed"
    /\ ~IsNull(th.snoozeUntil)
    /\ t >= Val(th.snoozeUntil)
    /\ ~th.snoozeDue

\* C11: WakeSnoozed sets snoozeDue on exactly the snoozed threads whose
\* snoozeUntil has elapsed and that are not flagged yet, and changes nothing
\* else (nothing at all when no thread qualifies).  Hence, for a thread
\* just snoozed until ts, a sweep before ts leaves it as it is, a sweep at
\* or after ts flags it, and repeating a sweep changes nothing.
WakeSnoozedEffect ==
    /\ [][StoreWakeSnoozed
            => /\ selectedThreadId' = selectedThreadId
               /\ selectedChannelId' = selectedChannelId
               /\ Idx(threads') = Idx(threads)
               /\ \A i \in Idx(threads) :
                     threads'[i] =
                        IF WakeQualifies(threads[i], now)
                        THEN [threads[i] EXCEPT !.snoozeDue = TRUE]
                        ELSE threads[i]
               /\ (~\E i \in Idx(threads) : WakeQualifies(threads[i], now))
                     => threads' = threads]_vars
    /\ [](\A id \in IdsOf(threads), ts \in 1..(MaxTime + 1), t \in 1..MaxTime :
            LET s == ReduceSetThreadStatus(threads, id, "snoozed", Some(ts))
                w == ReduceWakeSnoozed(s, t)
            IN  /\ t < ts => ThreadOf(w, id) = ThreadOf(s, id)
                /\ t >= ts => ThreadOf(w, id) =
                                 [ThreadOf(s, id) EXCEPT !.snoozeDue = TRUE]
                /\ ReduceWakeSnoozed(w, t) = w)

\* C11 witness: a sweep has flagged one snoozed thread and left alone
\* another whose snooze has not elapsed.
FlaggedAndPendingSnooze ==
    \E i \in Idx(threads), j \in Idx(threads) :
        /\ threads[i].status = "snoozed"
        /\ threads[i].snoozeDue
        /\ threads[j].status = "snoozed"
        /\ ~IsNull(threads[j].snoozeUntil)
        /\ Val(threads[j].snoozeUntil) > now
        /\ ~threads[j].snoozeDue

\* ReducerSpec: the dispatches that read or write status, the snooze fields,
\* the unread fields and the selection, within one run of the app.
ReducerNext ==
    \/ \E c \in Channels : StoreCreateThread(c, DefaultTitle)
    \/ \E c \in Channels : StoreCreateChatThread(c)
    \/ \E id \in ThreadIds : StoreAddChatMessage(id)
    \/ \E id \in ThreadIds : StoreSelectThread(id)
    \/ \E id \in ThreadIds, st \in UiStatuses, su \in SnoozeArgs :
          StoreSetThreadStatus(id, st, su)
    \/ \E id \in ThreadIds : StoreMarkActivity(id)
    \/ \E c \in Channels : StoreSelectChannel(c)
    \/ StoreMarkAllRead
    \/ StoreWakeSnoozed
    \/ \E id \in ThreadIds : StoreKillThreadPty(id)
    \/ \E id \in ThreadIds : StoreDeleteThread(id)
    \/ StoreHydrate
    \/ Tick

ReducerSpec == Init /\ [][ReducerNext]_vars

\* the reducer under the timers the event loop is bound to run: the mount
\* effect and the 30 s wake sweep.  User events are not forced.
FairReducerSpec ==
    /\ ReducerSpec
    /\ WF_vars(StoreHydrate)
    /\ WF_vars(StoreWakeSnoozed)

\* thread id is flagged as due for the snooze that ran until u
DueWith(id, u) ==
    \E i \in Idx(threads) :
        /\ threads[i].id = id
        /\ threads[i].snoozeDue
        /\ threads[i].snoozeUntil = Some(u)

\* C12: once the due flag of a snooze has been cleared (acknowledged), no
\* later sweep raises it again for the same snooze: a thread flagged for
\* the snooze until u and then unflagged is never flagged for it again.
\* (A new snooze is always until a later time, so it is a different u.)
AcknowledgedSnoozeStaysQuiet ==
    \A id \in ThreadIds, u \in 1..MaxTime :
        [](DueWith(id, u) => [](~DueWith(id, u) => []~DueWith(id, u)))

\* C13: KillThreadPty(id) on an existing thread ends with status inactive,
\* ptyExitCode = -1, ptyRunning false and ptyId null whatever the status
\* was, and applying it again changes nothing.
KillThreadPtyEffect ==
    [][\A id \in ThreadIds :
          (StoreKillThreadPty(id) /\ HasThread(threads, id))
          => /\ HasThread(threads', id)
             /\ ThreadOf(threads', id).status = "inactive"
             /\ ThreadOf(threads', id).ptyExitCode = Some(KilledCode)
             /\ ~ThreadOf(threads', id).ptyRunning
             /\ IsNull(ThreadOf(threads', id).ptyId)
             /\ ReduceKillThreadPty(threads', id) = threads']_vars

\* C13 witness: a thread killed while it was snoozed, next to one killed
\* while it was done or active.
KilledFromTwoStatuses ==
    \E i \in Idx(threads), j \in Idx(threads) :
        /\ threads[i].status = "inactive"
        /\ threads[i].ptyExitCode = Some(KilledCode)
        /\ ~IsNull(threads[i].snoozeUntil)
        /\ threads[j].status = "inactive"
        /\ threads[j].ptyExitCode = Some(KilledCode)
        /\ IsNull(threads[j].snoozeUntil)

\* C14: SetThreadStatus(id, status, snoozeUntil?) sets the status; the
\* thread's snoozeUntil becomes the given value (null if omitted) when the
\* status is snoozed and null otherwise; snoozeDue becomes false; the other
\* fields, the other threads and the selection stay as they were.
SetThreadStatusEffect ==
    [][\A id \in ThreadIds, st \in UiStatuses, su \in SnoozeArgs :
          (StoreSetThreadStatus(id, st, su) /\ HasThread(threads, id))
          => /\ selectedThreadId' = selectedThreadId
             /\ selectedChannelId' = selectedChannelId
             /\ Idx(threads') = Idx(threads)
             /\ \A i \in Idx(threads) :
                   IF threads[i].id = id
                   THEN /\ threads'[i].status = st
                        /\ threads'[i].snoozeUntil =
                              IF st = "snoozed" THEN su ELSE Null
                        /\ ~threads'[i].snoozeDue
                        /\ [threads'[i] EXCEPT !.status = "active",
                                               !.snoozeUntil = Null,
                                               !.snoozeDue = FALSE]
                           = [threads[i] EXCEPT !.status = "active",
                                                !.snoozeUntil = Null,
                                                !.snoozeDue = FALSE]
                   ELSE threads'[i] = threads[i]]_vars

\* C14 witness: a thread snoozed with no snoozeUntil given, next to a
\* thread marked done, with no snoozeUntil and no due flag.
SnoozedOpenEndedAndDone ==
    \E i \in Idx(threads), j \in Idx(threads) :
        /\ threads[i].status = "snoozed"
        /\ IsNull(threads[i].snoozeUntil)
        /\ threads[j].status = "done"
        /\ IsNull(threads[j].snoozeUntil)
        /\ ~threads[j].snoozeDue

\* C15: SetPtyExited(id, code) changes only ptyRunning (to false) and
\* ptyExitCode (to code); SetPtyRunning(id) changes only ptyRunning (to
\* true) and ptyExitCode (to null).  Neither changes status: a killed
\* thread that is restarted runs with status inactive.
PtyExitedRunningFrame ==
    [][\A id \in ThreadIds :
          /\ (StoreSetPtyExited(id, SelfExitCode) /\ HasThread(threads, id))
             => /\ selectedThreadId' = selectedThreadId
                /\ Idx(threads') = Idx(threads)
                /\ \A i \in Idx(threads) :
                      threads'[i] =
                         IF threads[i].id = id
                         THEN [threads[i] EXCEPT
                                 !.ptyRunning = FALSE,
                                 !.ptyExitCode = Some(SelfExitCode)]
                         ELSE threads[i]
          /\ (StoreSetPtyRunning(id) /\ HasThread(threads, id))
             => /\ selectedThreadId' = selectedThreadId
                /\ Idx(threads') = Idx(threads)
                /\ \A i \in Idx(threads) :
                      threads'[i] =
                         IF threads[i].id = id
                         THEN [threads[i] EXCEPT !.ptyRunning = TRUE,
                                                 !.ptyExitCode = Null]
                         ELSE threads[i]
                /\ ThreadOf(threads, id).status = "inactive"
                      => /\ ThreadOf(threads', id).status = "inactive"
                         /\ ThreadOf(threads', id).ptyRunning]_vars

\* C15 witness: a killed thread that was restarted (running, status still
\* inactive) next to an active thread whose process exited by itself.
RestartedInactiveAndExitedActive ==
    \E i \in Idx(threads), j \in Idx(threads) :
        /\ threads[i].status = "inactive"
        /\ threads[i].ptyRunning
        /\ IsNull(threads[i].ptyExitCode)
        /\ threads[j].status = "active"
        /\ ~threads[j].ptyRunning
        /\ threads[j].ptyExitCode = Some(SelfExitCode)

\* C16: after MarkAllRead no thread has hasUnread or snoozeDue; a thread
\* that had either flag gets lastReadAt = now and is otherwise as before; a
\* thread that had neither is unchanged.
MarkAllReadEffect ==
    [][StoreMarkAllRead
          => /\ selectedThreadId' = selectedThreadId
             /\ selectedChannelId' = selectedChannelId
             /\ Idx(threads') = Idx(threads)
             /\ \A i \in Idx(threads) :
                   /\ ~threads'[i].hasUnread
                   /\ ~threads'[i].snoozeDue
                   /\ threads'[i] =
                         IF threads[i].hasUnread \/ threads[i].snoozeDue
                         THEN [threads[i] EXCEPT !.hasUnread = FALSE,
                                                 !.snoozeDue = FALSE,
                                                 !.lastReadAt = Some(now)]
                         ELSE threads[i]]_vars

\* C16 witness: nothing is flagged; an unselected thread with activity now
\* was read now, and another thread keeps an older lastReadAt.
AllReadOneTouched ==
    /\ \A i \in Idx(threads) : ~threads[i].hasUnread /\ ~threads[i].snoozeDue
    /\ \E i \in Idx(threads), j \in Idx(threads) :
          /\ ~IsSelected(threads[i])
          /\ threads[i].lastActivityAt = now
          /\ threads[i].lastReadAt = Some(now)
          /\ threads[i].status = "snoozed"
          /\ threads[i].snoozeUntil = Some(now)
          /\ LastReadOrZero(threads[j]) < now

\* C17: CreateThread(id, channelId, title, ptyId) appends exactly one
\* thread, with status active, hasUnread false, snoozeUntil null, snoozeDue
\* false, ptyRunning true and ptyExitCode null, selects it and its channel,
\* and leaves the existing threads as they were.
CreateThreadEffect ==
    [][\A c \in Channels, title \in Titles :
          StoreCreateThread(c, title)
          => /\ Len(threads') = Len(threads) + 1
             /\ SubSeq(threads', 1, Len(threads)) = threads
             /\ LET n == threads'[Len(threads')]
                IN  /\ n.id = nextId
                    /\ n.channelId = c
                    /\ n.title = title
                    /\ n.threadType = "terminal"
                    /\ n.status = "active"
                    /\ ~n.hasUnread
                    /\ IsNull(n.snoozeUntil)
                    /\ ~n.snoozeDue
                    /\ n.ptyRunning
                    /\ IsNull(n.ptyExitCode)
             /\ selectedThreadId' = Some(nextId)
             /\ selectedChannelId' = Some(c)]_vars

\* C17 witness: a thread just created (last, selected, running) after a
\* thread that was killed before.
FreshThreadAfterKilledOne ==
    /\ Len(threads) = 2
    /\ threads[1].status = "inactive"
    /\ threads[1].ptyExitCode = Some(KilledCode)
    /\ IsSelected(threads[2])
    /\ threads[2].threadType = "terminal"
    /\ threads[2].title = "prompt"
    /\ threads[2].status = "active"
    /\ threads[2].ptyRunning
    /\ IsNull(threads[2].ptyExitCode)
    /\ selectedChannelId = Some(threads[2].channelId)

\* C18: DeleteThread(id) removes the thread with that id and leaves the
\* other threads as they were; selectedThreadId becomes null if it was id
\* and is otherwise unchanged.
DeleteThreadEffect ==
    [][\A id \in ThreadIds :
          (StoreDeleteThread(id) /\ HasThread(threads, id))
          => /\ ~HasThread(threads', id)
             /\ threads' = SelectSeq(threads, LAMBDA th : th.id # id)
             /\ selectedThreadId' = IF selectedThreadId = Some(id) THEN Null
                                    ELSE selectedThreadId
             /\ selectedChannelId' = selectedChannelId]_vars

\* C18 witness: the first thread is gone, the second one is left and is
\* still the selected one.
FirstDeletedSecondSelected ==
    /\ nextId = 3
    /\ IdsOf(threads) = {2}
    /\ selectedThreadId = Some(2)

\* ListSpec: the thread list and the scheduled-message list as entries
\* come and go, under the dispatches that address one entry by id.
ListNext ==
    \/ \E c \in Channels, title \in Titles : StoreCreateThread(c, title)
    \/ \E c \in Channels : StoreCreateChatThread(c)
    \/ \E id \in ThreadIds : StoreSelectThread(id)
    \/ \E id \in ThreadIds : StoreKillThreadPty(id)
    \/ \E id \in ThreadIds : StoreSetOutputPreview(id, "out")
    \/ \E id \in ThreadIds : StoreDeleteThread(id)
    \/ StoreScheduleMessage("prompt", now + 1)
    \/ \E m \in MsgIds : StoreCancelScheduled(m)
    \/ StoreHydrate
    \/ Tick

ListSpec == Init /\ [][ListNext]_vars

MsgIdsOf(msgs) == {msgs[i].id : i \in DOMAIN msgs}

\* C19: a thread-targeted dispatch (SetThreadStatus, MarkActivity,
\* SetOutputPreview, KillThreadPty, SetPtyExited, SetPtyRunning,
\* RenameThread, DeleteThread) with an id that no thread has leaves the
\* thread list as it is, and CancelScheduled / FireScheduled with an id that
\* no message has leaves the scheduled-message list as it is.
MissingIdIsNoop ==
    /\ \A id \in ThreadIds \ IdsOf(threads) :
          /\ \A st \in Statuses, su \in {Null, Some(now + 1)} :
                ReduceSetThreadStatus(threads, id, st, su) = threads
          /\ ReduceMarkActivity(threads, id, selectedThreadId, now) = threads
          /\ ReduceSetOutputPreview(threads, id, "out") = threads
          /\ ReduceKillThreadPty(threads, id) = threads
          /\ ReduceSetPtyExited(threads, id, SelfExitCode) = threads
          /\ ReduceSetPtyRunning(threads, id) = threads
          /\ ReduceRenameThread(threads, id, "renamed") = threads
          /\ ReduceDeleteThread(threads, id) = threads
    /\ \A m \in MsgIds \ MsgIdsOf(scheduledMessages) :
          /\ ReduceCancelScheduled(scheduledMessages, m) = scheduledMessages
          /\ ReduceFireScheduled(scheduledMessages, m) = scheduledMessages

\* C19 witness: thread 1 was deleted and thread 2 is left, message 1 was
\* cancelled and message 2 is left: id 1 names nothing in either list.
StaleIdsInBothLists ==
    /\ IdsOf(threads) = {2}
    /\ ~IsNull(threads[1].lastOutputPreview)
    /\ MsgIdsOf(scheduledMessages) = {2}

\* C20: SelectThread with an id that no thread has leaves every thread as
\* it is and still sets selectedThreadId to that id, so selectedThreadId
\* can name a thread that does not exist.
SelectMissingThreadEffect ==
    /\ [][\A id \in ThreadIds :
             (StoreSelectThread(id) /\ ~HasThread(threads, id))
             => (threads' = threads /\ selectedThreadId' = Some(id))]_vars
    /\ [](\A id \in ThreadIds \ IdsOf(threads) :
             ReduceSelectThread(threads, id, now) = threads)

\* C20 witness: threads exist, one of them unread, and the selection names
\* an id that none of them has.
DanglingSelection ==
    /\ threads # << >>
    /\ \E i \in Idx(threads) : threads[i].hasUnread
    /\ ~IsNull(selectedThreadId)
    /\ ~HasThread(threads, Val(selectedThreadId))

\* ScheduleSpec: scheduled messages from their creation to their firing or
\* cancelling, across closing and starting the app.
SweepChannels == {"c1", "c2"}

ScheduleNext ==
    \/ \E c \in SweepChannels : StoreSelectChannel(c)
    \/ \E prompt \in Titles, at \in {now, now + 1} :
          StoreScheduleMessage(prompt, at)
    \/ \E m \in MsgIds : StoreCancelScheduled(m)
    \/ StoreFireSweep
    \/ StoreHydrate
    \/ PersistThreads
    \/ Unmount
    \/ Launch
    \/ Tick

ScheduleSpec == Init /\ [][ScheduleNext]_vars

HasMsg(msgs, m) == \E i \in DOMAIN msgs : msgs[i].id = m
MsgOf(msgs, m) == msgs[CHOOSE i \in DOMAIN msgs : msgs[i].id = m]

\* C21: SCHEDULE_MESSAGE appends the message; CANCEL_SCHEDULED and
\* FIRE_SCHEDULED each take out the message with the given id and nothing
\* else; FIRE_SCHEDULED leaves the threads as they are; and from one state
\* to the next a message that stays in the list keeps its fields.
ScheduledMessageLifecycle ==
    /\ [][/\ \A prompt \in Titles, at \in {now, now + 1} :
               StoreScheduleMessage(prompt, at)
               => /\ scheduledMessages' =
                       scheduledMessages \o
                         <<[id |-> nextMsgId,
                            channelId |-> Val(selectedChannelId),
                            prompt |-> prompt, scheduledAt |-> at]>>
                  /\ threads' = threads
          /\ \A m \in MsgIds :
               StoreCancelScheduled(m)
               => /\ ~HasMsg(scheduledMessages', m)
                  /\ Len(scheduledMessages') = Len(scheduledMessages) - 1
                  /\ threads' = threads
          /\ \A m \in MsgIds :
               (HasMsg(scheduledMessages, m) /\ HasMsg(scheduledMessages', m))
               => MsgOf(scheduledMessages', m) = MsgOf(scheduledMessages, m)
         ]_vars
    /\ [](phase = "running" =>
            \A m \in MsgIdsOf(scheduledMessages) :
               LET S == ApplyFireScheduled(SweepState, m)
                   C == ReduceCancelScheduled(scheduledMessages, m)
               IN  /\ S.threads = threads
                   /\ S.selectedThreadId = selectedThreadId
                   /\ ~HasMsg(S.scheduledMessages, m)
                   /\ Len(S.scheduledMessages) = Len(scheduledMessages) - 1
                   /\ \A k \in MsgIdsOf(scheduledMessages) \ {m} :
                         /\ MsgOf(S.scheduledMessages, k)
                              = MsgOf(scheduledMessages, k)
                         /\ MsgOf(C, k) = MsgOf(scheduledMessages, k)
                   /\ C = S.scheduledMessages)

\* C21 witness: the first message was taken out, the second is pending
\* beside a thread that the sweep made.
SecondMessagePendingAfterFire ==
    /\ phase = "running"
    /\ MsgIdsOf(scheduledMessages) = {2}
    /\ fired[1] = 1
    /\ threads # << >>

DueOf(msgs, t) == SelectSeq(msgs, LAMBDA m : m.scheduledAt <= t)
PendingOf(msgs, t) == SelectSeq(msgs, LAMBDA m : m.scheduledAt > t)

\* what a run of the fire sweep at time now does to the store
FireSweepEffect ==
    [][StoreFireSweep
         => LET due == DueOf(scheduledMessages, now)
            IN  /\ scheduledMessages' = PendingOf(scheduledMessages, now)
                /\ Len(threads') = Len(threads) + Len(due)
                /\ \A i \in Idx(threads) : threads'[i] = threads[i]
                /\ \A k \in DOMAIN due :
                      LET th == threads'[Len(threads) + k]
                      IN  /\ th.title = due[k].prompt
                          /\ th.channelId = due[k].channelId
                          /\ th.id \notin IdsOf(threads)
                          /\ th.threadType = "terminal"]_vars

\* C22: a run of the fire sweep at time t leaves the messages with
\* scheduledAt > t pending and, for every message with scheduledAt <= t,
\* removes it and creates exactly one thread with the prompt as title in the
\* channel of the message; and no message is fired twice.
FireSweepFiresOnce ==
    /\ FireSweepEffect
    /\ [](\A m \in MsgIds : fired[m] <= 1)

\* HydrateSpec: the app started over what localStorage holds: nothing, what
\* an earlier run saved, a text that is not JSON, or JSON of another shape.
Garbage == [kind |-> "garbage"]
NonArray == [kind |-> "object"]

\* a thread as a run left it: unread, its process running
SavedThread ==
    [makeThread(1, "c1", DefaultTitle, "terminal", Some(PtyIdArg), TRUE, 1)
        EXCEPT !.hasUnread = TRUE, !.lastReadAt = Null]

SavedMessage ==
    [id |-> 1, channelId |-> "c1", prompt |-> "prompt", scheduledAt |-> 2]

SavedThreadsTexts ==
    {Null, Some(Garbage), Some(NonArray),
     Some(JsonStringifyThreads(<<SavedThread>>))}

SavedScheduledTexts ==
    {Null, Some(Garbage), Some(NonArray),
     Some(JsonStringifyMessages(<<SavedMessage>>))}

HydrateInit ==
    /\ threads = << >>
    /\ selectedThreadId = Null
    /\ selectedChannelId = Null
    /\ now = 1
    /\ nextId = 2
    /\ storage \in SavedThreadsTexts
    /\ phase = "mount"
    /\ scheduledMessages = << >>
    /\ nextMsgId = 2
    /\ storedScheduled \in SavedScheduledTexts
    /\ fired = [m \in MsgIds |-> 0]
    /\ RegInit

HydrateNext ==
    \/ StoreHydrate
    \/ \E c \in Channels : StoreCreateThread(c, DefaultTitle)
    \/ \E id \in ThreadIds : StoreSelectThread(id)
    \/ \E id \in ThreadIds : StoreMarkActivity(id)
    \/ \E id \in ThreadIds : StoreKillThreadPty(id)
    \/ \E id \in ThreadIds : StoreSetPtyExited(id, SelfExitCode)
    \/ \E id \in ThreadIds : StoreSetPtyRunning(id)
    \/ \E id \in ThreadIds : StoreDeleteThread(id)
    \/ PersistThreads
    \/ Unmount
    \/ Launch
    \/ Tick

HydrateSpec == HydrateInit /\ [][HydrateNext]_vars

\* the fields the hydrate effect forces, set to one value
WithoutForced(th) ==
    [th EXCEPT !.ptyRunning = FALSE, !.ptyId = Null, !.hasUnread = FALSE,
               !.ptyExitCode = Null]

Forced(th) ==
    /\ ~th.ptyRunning
    /\ th.ptyId = Null
    /\ ~th.hasUnread
    /\ th.ptyExitCode = Some(0)

Malformed(saved) == ~IsNull(saved) /\ Val(saved).kind # "array"

\* C24: when a saved value does not parse or has the wrong shape, loading
\* dispatches no HYDRATE and leaves the state of the store as it was.
MalformedStorageIsNoSavedState ==
    [][(StoreHydrate /\ (Malformed(storage) \/ Malformed(storedScheduled)))
         => /\ threads' = threads
            /\ scheduledMessages' = scheduledMessages
            /\ phase' = "running"]_vars

\* the processes spawned for a thread id since the page was loaded
ProcsOf(ps, id) == {p \in DOMAIN ps : ps[p].tid = id}

\* a thread as the hydrate effect restored it, not restarted or killed since
Restored(th) == ~th.ptyRunning /\ th.ptyExitCode = Some(HydratedCode)

\* C25: a thread restored with ptyRunning = false gets no process when it
\* is loaded or selected (selecting it creates only the buffer); its first
\* process is spawned by Restart.
RestoredSpawnsOnlyOnRestart ==
    /\ [](\A i \in Idx(threads) :
            Restored(threads[i])
            => /\ ProcsOf(procs, threads[i].id) = {}
               /\ ~IsNull(instances[threads[i].id])
                    => IsNull(objs[Val(instances[threads[i].id])].pty))
    /\ [][\A id \in ThreadIds :
            (/\ HasThread(threads, id)
             /\ ~ThreadOf(threads, id).ptyRunning
             /\ ProcsOf(procs, id) = {}
             /\ ProcsOf(procs', id) # {})
            => /\ BannerShown(id)
               /\ ~IsNull(instances[id])
               /\ threads' = ReduceSetPtyRunning(threads, id)]_vars

\* C25 witness: two restored threads, the first selected and holding a
\* buffer without a process, the second restarted and running.
RestoredSelectedAndRestarted ==
    /\ Len(threads) = 2
    /\ Restored(threads[1])
    /\ ~IsNull(instances[threads[1].id])
    /\ IsNull(objs[Val(instances[threads[1].id])].pty)
    /\ selectedThreadId = Some(threads[1].id)
    /\ threads[2].ptyRunning
    /\ Cardinality(ProcsOf(procs, threads[2].id)) = 1
    /\ Len(procs) = 1

\* C26: every process is written the auto-run command at most once and the
\* pending prompt at most once, never the prompt before the command, and a
\* timer that fires while the session's process handle is null writes
\* nothing.
AutoRunWritesOnceInOrder ==
    /\ [](\A p \in DOMAIN procs :
            procs[p].written \in {<< >>, <<"cmd">>, <<"cmd", "prompt">>})
    /\ [][\A tm \in timers :
            ((AutoRunTimer(tm) \/ PromptTimer(tm)) /\ IsNull(objs[tm.obj].pty))
            => procs' = procs]_vars

\* ------------------------------------------------- output pipeline
\* the chunks a process is given to produce
ChunkEcho ==
    CurrentCmd \o <<"\r", "\n", "$", " ", "l", "s", "\n", "o", "k", "\n">>
      \o <<"U+256D", "-", "-", "-", "\n", ">", " ", "h", "i", "!">>
ChunkTitle ==
    <<" ", "F", "i", "x", " ", "i", "t", " ", "\n", "D", "o", "n", "e", "!">>
ChunkSixty == Rep(TitleMax, "y")
ChunkLong == Rep(TitleMax + 1, "x")
TitleChunks == {ChunkEcho, ChunkTitle, ChunkSixty, ChunkLong}

\* TitleSpec: the ring buffer and the auto-title of a session under output
\* that arrives before and after the auto-run command has started, over
\* kills and restarts.
TitleNext ==
    \/ \E c \in Channels, title \in Titles : CreateThread(c, title)
    \/ \E id \in ThreadIds : KillThreadPty(id)
    \/ \E id \in ThreadIds : Restart(id)
    \/ \E tm \in timers : AutoRunTimer(tm)
    \/ \E p \in DOMAIN procs, chunk \in TitleChunks : ProcData(p, chunk)
    \/ FlushEffects
    \/ Hydrate

TitleSpec == Init /\ [][TitleNext]_vars

\* the instance whose onData listener is attached to process p
ListenerOf(p) ==
    CHOOSE o \in DOMAIN objs : objs[o].pty = Some(p) /\ objs[o].listening

\* the trimmed lines of a chunk, in arrival order
TrimmedLines(chunk) ==
    [k \in 1..Len(SplitLines(chunk)) |-> Trim(SplitLines(chunk)[k])]

\* C27: a chunk of output renames the thread exactly when the session has
\* not renamed yet, its auto-run command has started, the thread is
\* autoTitled and the chunk holds a line longer than 3 characters that does
\* not start with $, %, > or a box-drawing glyph and is not the auto-run
\* command; the title is the first such line, cut to 60 characters plus
\* "..." when longer; a session that has renamed never renames again.
AutoTitleOncePerSession ==
    /\ [][\A p \in DOMAIN procs, chunk \in TitleChunks :
            ProcData(p, chunk) =>
              LET o == ListenerOf(p)
                  tid == objs[o].tid
                  before == ThreadOf(threads, tid)
                  after == ThreadOf(threads', tid)
                  lines == TrimmedLines(chunk)
                  good == {k \in DOMAIN lines :
                             /\ Len(lines[k]) > 3
                             /\ lines[k][1] \notin
                                  {"$", "%", ">", "U+256D", "U+2570"}
                             /\ lines[k] # CurrentCmd}
              IN  IF /\ ~objs[o].autoTitleDone
                     /\ objs[o].claudeStarted
                     /\ before.autoTitled
                     /\ good # {}
                  THEN LET first == CHOOSE k \in good :
                                        \A j \in good : k <= j
                           line == lines[first]
                       IN  /\ after.title =
                                Join(IF Len(line) > 60
                                     THEN SubSeq(line, 1, 60)
                                            \o <<".", ".", ".">>
                                     ELSE line)
                           /\ objs'[o].autoTitleDone
                  ELSE /\ after.title = before.title
                       /\ after.autoTitled = before.autoTitled
                       /\ objs'[o].autoTitleDone = objs[o].autoTitleDone]_vars
    /\ [][\A o \in DOMAIN objs :
            objs[o].autoTitleDone
              => /\ o \in DOMAIN objs'
                 /\ objs'[o].autoTitleDone
                 /\ ThreadOf(threads', objs[o].tid).title
                      = ThreadOf(threads, objs[o].tid).title]_vars

\* a session renamed its thread to the first 60 characters of a line of 61
\* plus the ellipsis, and its process produced a further chunk afterwards
TitledFromLongLineThenMoreOutput ==
    \E o \in DOMAIN objs :
        /\ objs[o].autoTitleDone
        /\ ThreadOf(threads, objs[o].tid).title
             = Join(Rep(TitleMax, "x") \o <<".", ".", ".">>)
        /\ ~IsNull(objs[o].pty)
        /\ procs[Val(objs[o].pty)].chunks = MaxChunks

\* C28: the recent-output buffer of a session never holds more than 5 lines
\* and never an empty line; a chunk appends its non-empty trimmed lines in
\* arrival order and what is kept is the newest 5 of the old lines followed
\* by the new ones; nothing else changes the buffer.
RingBufferHoldsNewestFive ==
    /\ [](\A o \in DOMAIN objs :
            /\ Len(objs[o].outputLines) <= 5
            /\ \A k \in 1..Len(objs[o].outputLines) :
                  Len(objs[o].outputLines[k]) > 0)
    /\ [][\A p \in DOMAIN procs, chunk \in TitleChunks :
            ProcData(p, chunk) =>
              LET o == ListenerOf(p)
                  lines == TrimmedLines(chunk)
                  NonEmpty(l) == l # << >>
                  all == objs[o].outputLines
                           \o SelectSeq([k \in 1..Len(lines) |-> lines[k]],
                                        NonEmpty)
              IN  objs'[o].outputLines =
                     IF Len(all) > 5
                     THEN SubSeq(all, Len(all) - 4, Len(all))
                     ELSE all]_vars
    /\ [][(\E o \in DOMAIN objs :
              objs'[o].outputLines # objs[o].outputLines)
            => \E p \in DOMAIN procs, chunk \in TitleChunks :
                  ProcData(p, chunk)]_vars

\* a session whose buffer is full after the two oldest of seven lines were
\* evicted: the five lines of the echo chunk, then the two of the title chunk
TwoOldestLinesEvicted ==
    \E o \in DOMAIN objs :
        /\ Len(objs[o].outputLines) = RingCapacity
        /\ objs[o].outputLines[1] = <<"o", "k">>
        /\ objs[o].outputLines[4] = <<"F", "i", "x", " ", "i", "t">>
        /\ objs[o].outputLines[5] = <<"D", "o", "n", "e", "!">>

\* ------------------------------------------------- preview debounce
\* the chunks of PreviewSpec: no line at all, two short lines, a line of
\* PreviewMax characters, a line of one more
ChunkBlank == <<" ", "\r", "\n", "\n">>
ChunkFull == Rep(PreviewMax, "p")
ChunkOver == Rep(PreviewMax + 1, "q")
PreviewChunks == {ChunkBlank, ChunkTitle, ChunkFull, ChunkOver}

\* PreviewSpec: output chunks and the 2000 ms preview timers they arm, over
\* kills and restarts.
PreviewNext ==
    \/ \E c \in Channels : CreateThread(c, DefaultTitle)
    \/ \E id \in ThreadIds : KillThreadPty(id)
    \/ \E id \in ThreadIds : Restart(id)
    \/ \E p \in DOMAIN procs, chunk \in PreviewChunks : ProcData(p, chunk)
    \/ \E tm \in timers : PreviewTimer(tm)
    \/ FlushEffects
    \/ Hydrate

PreviewSpec == Init /\ [][PreviewNext]_vars

\* the preview timers pending for instance o
PreviewTimersOf(o) == {tm \in timers : tm.kind = "preview" /\ tm.obj = o}

\* C29: a session has at most one preview timer pending; a chunk that
\* arrives while one is pending arms none; a firing timer sets the thread's
\* preview to the newest buffered line as it is then, cut to 120 characters
\* plus "..." when longer, and leaves no timer pending.
OnePreviewTimerNewestLine ==
    /\ [](\A o \in DOMAIN objs :
            /\ Cardinality(PreviewTimersOf(o)) <= 1
            /\ objs[o].previewTimer <=> PreviewTimersOf(o) # {})
    /\ [][\A p \in DOMAIN procs, chunk \in PreviewChunks :
            (ProcData(p, chunk) /\ PreviewTimersOf(ListenerOf(p)) # {})
              => timers' = timers]_vars
    /\ [][\A tm \in timers :
            PreviewTimer(tm) =>
              LET o == tm.obj
                  buf == objs[o].outputLines
                  newest == buf[Len(buf)]
              IN  /\ PreviewTimersOf(o) = {tm}
                  /\ timers' = timers \ {tm}
                  /\ IF buf = << >> THEN threads' = threads
                     ELSE ThreadOf(threads', objs[o].tid).lastOutputPreview
                            = Some(Join(IF Len(newest) > 120
                                        THEN SubSeq(newest, 1, 120)
                                               \o <<".", ".", ".">>
                                        ELSE newest))]_vars

\* a thread whose preview is a cut line of 121 characters, while the timer
\* armed by the first chunk of its restarted process is still the only one
\* pending after the second chunk
SecondChunkWhilePending ==
    \E tm \in timers :
        /\ tm.kind = "preview"
        /\ tm.chunk = 0
        /\ procs[tm.spawn].chunks = MaxChunks
        /\ ThreadOf(threads, objs[tm.obj].tid).lastOutputPreview
             = Some(Join(Rep(PreviewMax, "q") \o <<".", ".", ".">>))

\* ------------------------------------------------- activity of output
ActivityChunks == {ChunkBlank, ChunkTitle}

\* ActivitySpec: output of selected and unselected threads while the clock
\* advances and the selection changes.
ActivityNext ==
    \/ \E c \in Channels : CreateThread(c, DefaultTitle)
    \/ \E id \in ThreadIds : SelectThread(id)
    \/ \E c \in Channels : SelectChannel(c)
    \/ \E p \in DOMAIN procs, chunk \in ActivityChunks : ProcData(p, chunk)
    \/ FlushEffects
    \/ Hydrate
    \/ Tick

ActivitySpec == Init /\ [][ActivityNext]_vars

\* C30: a chunk of output of a thread that is not selected marks activity
\* (lastActivityAt = now, hasUnread = now later than the last read); a chunk
\* of the selected thread leaves its lastActivityAt and hasUnread alone.
OutputMarksOnlyUnselected ==
    [][\A p \in DOMAIN procs, chunk \in ActivityChunks :
          ProcData(p, chunk) =>
            LET tid == objs[ListenerOf(p)].tid
                before == ThreadOf(threads, tid)
                after == ThreadOf(threads', tid)
            IN  IF selectedThreadId = Some(tid)
                THEN /\ after.lastActivityAt = before.lastActivityAt
                     /\ after.hasUnread = before.hasUnread
                ELSE /\ after.lastActivityAt = now
                     /\ after.hasUnread = (now > LastReadOrZero(before))]_vars

\* the selected thread has produced all its output and still shows an
\* earlier activity time and no unread flag, while output made the other
\* thread unread now
SelectedQuietOtherUnread ==
    \E i \in Idx(threads), j \in Idx(threads) :
        /\ IsSelected(threads[i])
        /\ \E p \in DOMAIN procs :
              procs[p].tid = threads[i].id /\ procs[p].chunks = MaxChunks
        /\ threads[i].lastActivityAt < now
        /\ ~threads[i].hasUnread
        /\ ~IsSelected(threads[j])
        /\ \E p \in DOMAIN procs :
              procs[p].tid = threads[j].id /\ procs[p].chunks > 0
        /\ threads[j].lastActivityAt = now
        /\ threads[j].hasUnread

\* ------------------------------------------------- exit, kill and restart
\* ExitSpec: processes that produce output and end by themselves or are
\* killed, restarts, and the unmount of the TerminalManager.
ExitNext ==
    \/ \E c \in Channels : CreateThread(c, DefaultTitle)
    \/ \E id \in ThreadIds : SelectThread(id)
    \/ \E id \in ThreadIds : KillThreadPty(id)
    \/ \E id \in ThreadIds : Restart(id)
    \/ \E p \in DOMAIN procs : ProcExit(p)
    \/ \E p \in DOMAIN procs, chunk \in ActivityChunks : ProcData(p, chunk)
    \/ FlushEffects
    \/ Hydrate
    \/ Unmount

ExitSpec == Init /\ [][ExitNext]_vars

\* the effects of a committed render and the mount effect are run by the
\* event loop; user events and process exits are not forced
FairExitSpec ==
    /\ ExitSpec
    /\ WF_vars(FlushEffects)
    /\ WF_vars(Hydrate)

\* instance o holds the handle of a process that has ended by itself
HoldsExited(o) ==
    /\ o \in DOMAIN objs
    /\ ~IsNull(objs[o].pty)
    /\ procs[Val(objs[o].pty)].state = "exited"

\* instance o holds the handle of process p, and p has ended by itself
HoldsExitedProc(o, p) ==
    /\ o \in DOMAIN objs
    /\ objs[o].pty = Some(p)
    /\ procs[p].state = "exited"

\* instance o no longer holds the handle of process p, or is disposed
Released(o, p) ==
    o \in DOMAIN objs => (objs[o].pty # Some(p) \/ objs[o].disposed)

KillDisposesListenersKeepsTerminal ==
    [][\A id \in ThreadIds :
          (/\ KillThreadPty(id)
           /\ ~IsNull(instances[id])
           /\ ~IsNull(objs[Val(instances[id])].pty)
           /\ procs[Val(objs[Val(instances[id])].pty)].state = "live")
          => LET o == Val(instances[id])
                 p == Val(objs[o].pty)
             IN  /\ ~objs'[o].listening
                 /\ procs'[p].state = "killed"
                 /\ IsNull(objs'[o].pty)
                 /\ objs'[o].killedNotice
                 /\ instances'[id] = Some(o)
                 /\ ~objs'[o].disposed
                 /\ objs'[o].outputLines = objs[o].outputLines
                 /\ Len(procs') = Len(procs)]_vars

\* a killed session that had produced output: process ended by the kill,
\* no listener, no handle, the entry and the buffered lines in place
KilledSessionKeepsBuffer ==
    \E o \in DOMAIN objs :
        /\ IsNull(objs[o].pty)
        /\ ~objs[o].listening
        /\ ~objs[o].disposed
        /\ objs[o].killedNotice
        /\ objs[o].outputLines # << >>
        /\ instances[objs[o].tid] = Some(o)
        /\ ThreadOf(threads, objs[o].tid).ptyExitCode = Some(KilledCode)
        /\ \E p \in DOMAIN procs :
              procs[p].tid = objs[o].tid /\ procs[p].state = "killed"

\* SessionSpec: the sessions of terminal threads under user input, resizes,
\* the auto-run and prompt timers, exits, kills and restarts.
SessionNext ==
    \/ \E c \in Channels, title \in Titles : CreateThread(c, title)
    \/ \E id \in ThreadIds : KillThreadPty(id)
    \/ \E id \in ThreadIds : Restart(id)
    \/ \E p \in DOMAIN procs : ProcExit(p)
    \/ \E tm \in timers : AutoRunTimer(tm)
    \/ \E tm \in timers : PromptTimer(tm)
    \/ \E o \in DOMAIN objs, call \in {"input", "resize"} :
          TerminalEvent(o, call)
    \/ FlushEffects
    \/ Hydrate

SessionSpec == Init /\ [][SessionNext]_vars

\* ------------------------------------------------- restart
\* C33: the Restart button acts on a session whose process has ended or
\* was killed; handleRestart then leaves no observer on an earlier
\* process of the thread, gives no other session a process,
\* resets claudeStarted and promptSent, puts the thread back to
\* ptyRunning = true with ptyExitCode = null, and spawns exactly one new
\* live process, held by the same instance under the same registry entry;
\* for an id without an instance handleRestart dispatches nothing and
\* leaves the registry and the threads as they are.
RestartRespawnsOnSameInstance ==
    /\ [][\A id \in ThreadIds :
            (Restart(id) /\ ~IsNull(instances[id])) =>
               LET o == Val(instances[id])
                   p == Len(procs) + 1
               IN  /\ IsNull(objs[o].pty)
                        \/ procs[Val(objs[o].pty)].state # "live"
                   /\ Len(procs') = p
                   /\ procs'[p].state = "live"
                   /\ procs'[p].tid = id
                   /\ procs'[p].written = << >>
                   /\ \A q \in DOMAIN procs : procs'[q] = procs[q]
                   /\ instances' = instances
                   /\ Len(objs') = Len(objs)
                   /\ objs'[o].pty = Some(p)
                   /\ objs'[o].listening
                   /\ \A q \in DOMAIN procs, i \in DOMAIN objs' :
                         procs[q].tid = id =>
                            ~(objs'[i].pty = Some(q) /\ objs'[i].listening)
                   /\ \A i \in DOMAIN objs :
                         i # o => objs'[i].pty \in {objs[i].pty, Null}
                   /\ ~objs'[o].claudeStarted
                   /\ ~objs'[o].promptSent
                   /\ ~objs'[o].disposed
                   /\ ThreadOf(threads', id).ptyRunning
                   /\ IsNull(ThreadOf(threads', id).ptyExitCode)]_vars
    /\ [](\A id \in ThreadIds :
            IsNull(instances[id]) =>
               handleRestart(Reg, threads, id) =
                  [reg |-> Reg, threads |-> threads, dispatched |-> FALSE])

\* a session that had run its command and sent its prompt was restarted:
\* it holds a second, live process and its flags are reset
RestartedAfterPromptSent ==
    \E o \in DOMAIN objs :
       /\ ~IsNull(objs[o].pty)
       /\ \E q \in 1..(Val(objs[o].pty) - 1) :
             /\ procs[q].tid = objs[o].tid
             /\ procs[q].written = <<"cmd", "prompt">>
       /\ procs[Val(objs[o].pty)].state = "live"
       /\ procs[Val(objs[o].pty)].written = << >>
       /\ ~objs[o].claudeStarted
       /\ ~objs[o].promptSent

\* ------------------------------------------------- input and resize
\* the thread was killed and has not been restarted since
KilledThread(id) ==
    /\ HasThread(threads, id)
    /\ ~ThreadOf(threads, id).ptyRunning
    /\ ThreadOf(threads, id).ptyExitCode = Some(KilledCode)

\* C34: a user input or a resize is forwarded to the process whose handle
\* the instance holds and to no other; a process receives a call only
\* while an instance holds its handle; the instance of a killed thread
\* holds no handle, and no process of a killed thread receives a call
\* before the thread is restarted.
InputOnlyThroughHandle ==
    /\ [][/\ \A o \in DOMAIN objs, call \in {"input", "resize"} :
               TerminalEvent(o, call) =>
                  /\ ~IsNull(objs[o].pty)
                  /\ \A p \in DOMAIN procs :
                        procs'[p].written =
                           IF objs[o].pty = Some(p)
                           THEN Append(procs[p].written, call)
                           ELSE procs[p].written
          /\ \A p \in DOMAIN procs :
               procs'[p].written # procs[p].written =>
                  \E o \in DOMAIN objs : objs[o].pty = Some(p)
          /\ \A id \in ThreadIds :
               KilledThread(id) =>
                  \A p \in DOMAIN procs :
                     procs[p].tid = id =>
                        procs'[p].written = procs[p].written]_vars
    /\ [](\A id \in ThreadIds :
            (KilledThread(id) /\ ~IsNull(instances[id])) =>
               IsNull(objs[Val(instances[id])].pty))

\* a process took an input and a resize, and was then killed
KilledAfterInputAndResize ==
    \E p \in DOMAIN procs :
       /\ procs[p].state = "killed"
       /\ procs[p].written = <<"input", "resize">>
       /\ KilledThread(procs[p].tid)

\* ------------------------------------------------- spawn failure
\* SpawnSpec: sessions whose shell may fail to start
SpawnNext ==
    \/ \E c \in Channels : CreateThread(c, DefaultTitle)
    \/ \E id \in ThreadIds : SelectThread(id)
    \/ \E id \in ThreadIds : KillThreadPty(id)
    \/ \E id \in ThreadIds : Restart(id)
    \/ \E p \in DOMAIN procs : ProcExit(p)
    \/ \E p \in DOMAIN procs, surfaced \in BOOLEAN : SpawnFails(p, surfaced)
    \/ FlushEffects
    \/ Hydrate

SpawnSpec == Init /\ [][SpawnNext]_vars

\* the effects of a render and the mount effect run; a failure that the
\* library surfaces is delivered
FairSpawnSpec ==
    /\ SpawnSpec
    /\ WF_vars(FlushEffects)
    /\ WF_vars(Hydrate)

\* the instance of thread id holds the handle of a process that failed to
\* start
SpawnFailed(id) ==
    /\ HasThread(threads, id)
    /\ ~IsNull(instances[id])
    /\ ~IsNull(objs[Val(instances[id])].pty)
    /\ procs[Val(objs[Val(instances[id])].pty)].state = "failed"

\* C35: a thread whose process failed to start ends like a thread whose
\* process has exited: ptyRunning = false, ptyExitCode not null, and its
\* session still registered.
SpawnFailureEndsAsExit ==
    \A id \in ThreadIds :
       SpawnFailed(id) ~>
          (HasThread(threads, id) =>
             /\ ~ThreadOf(threads, id).ptyRunning
             /\ ~IsNull(ThreadOf(threads, id).ptyExitCode)
             /\ ~IsNull(instances[id]))

\* ------------------------------------------------- stale timers
\* C36: an auto-run or prompt timer writes only into the process of the
\* spawn that armed it: whatever it writes, it writes to no process
\* spawned by a later restart.
TimerWritesOnlyToItsSpawn ==
    [][\A tm \in timers :
         (AutoRunTimer(tm) \/ PromptTimer(tm)) =>
            \A p \in DOMAIN procs :
               procs'[p].written # procs[p].written => p = tm.spawn]_vars

\* ------------------------------------------------- exit code of a kill
\* C37: the ptyExitCode that KILL_THREAD_PTY wrote stays until the restart
\* of the thread: every step from a state in which the thread is killed
\* either leaves it killed (ptyRunning false, ptyExitCode -1) or is its
\* Restart, which sets ptyRunning with ptyExitCode null; and no process
\* of a killed thread ends by itself, whatever the order of the kill and
\* the exit of its process has been.
KilledCodeStaysUntilRestart ==
    [][/\ \A id \in ThreadIds :
            (KilledThread(id) /\ HasThread(threads', id)) =>
               \/ /\ ~ThreadOf(threads', id).ptyRunning
                  /\ ThreadOf(threads', id).ptyExitCode = Some(KilledCode)
               \/ /\ Restart(id)
                  /\ ThreadOf(threads', id).ptyRunning
                  /\ IsNull(ThreadOf(threads', id).ptyExitCode)
       /\ \A p \in DOMAIN procs :
            ProcExit(p) => ~KilledThread(procs[p].tid)]_vars

\* a thread is killed after its process had ended by itself
KilledAfterOwnExit ==
    \E p \in DOMAIN procs :
       /\ procs[p].state = "exited"
       /\ KilledThread(procs[p].tid)

\* ------------------------------------------------- the killed notice
\* C38: the "[Terminal killed]" notice is written into the buffer of a
\* session only when its thread has been killed by KILL_THREAD_PTY; the
\* session of a thread whose process ended by itself gets no such notice.
KilledNoticeOnlyAfterKill ==
    [][\A o \in DOMAIN objs :
         (~objs[o].killedNotice /\ objs'[o].killedNotice
             /\ HasThread(threads', objs[o].tid)) =>
            ThreadOf(threads', objs[o].tid).ptyExitCode = Some(KilledCode)]_vars

\* ------------------------------------------------- user rename
\* RenameSpec: output of started sessions with the user renaming threads
RenameNext ==
    \/ \E c \in Channels : CreateThread(c, DefaultTitle)
    \/ \E id \in ThreadIds : RenameThread(id, "renamed")
    \/ \E id \in ThreadIds : KillThreadPty(id)
    \/ \E id \in ThreadIds : Restart(id)
    \/ \E tm \in timers : AutoRunTimer(tm)
    \/ \E p \in DOMAIN procs, chunk \in {ChunkEcho, ChunkTitle} :
          ProcData(p, chunk)
    \/ FlushEffects
    \/ Hydrate

RenameSpec == Init /\ [][RenameNext]_vars

\* C39: once the user has renamed a thread, no output changes its title:
\* a thread with autoTitled = false keeps its title in every step that is
\* not a user rename, autoTitled never goes back to true, and a chunk of
\* output for such a thread leaves the thread's title and the session's
\* autoTitleDone as they are, however soon after the rename it arrives.
NoAutoTitleAfterUserRename ==
    [][/\ \A id \in ThreadIds :
            (/\ HasThread(threads, id)
             /\ ~ThreadOf(threads, id).autoTitled
             /\ HasThread(threads', id)) =>
               /\ ~ThreadOf(threads', id).autoTitled
               /\ \/ ThreadOf(threads', id).title = ThreadOf(threads, id).title
                  \/ RenameThread(id, "renamed")
       /\ \A p \in DOMAIN procs, chunk \in {ChunkEcho, ChunkTitle} :
            (/\ ProcData(p, chunk)
             /\ ThreadOf(threads, procs[p].tid).title = "renamed") =>
               /\ ThreadOf(threads', procs[p].tid).title = "renamed"
               /\ objs'[ListenerOf(p)].autoTitleDone
                     = objs[ListenerOf(p)].autoTitleDone]_vars

\* a renamed thread whose session has started its command, has taken two
\* chunks of output with qualifying lines and has set no title
RenamedThreadKeepsTitleUnderOutput ==
    \E o \in DOMAIN objs :
       /\ HasThread(threads, objs[o].tid)
       /\ ThreadOf(threads, objs[o].tid).title = "renamed"
       /\ objs[o].claudeStarted
       /\ ~objs[o].autoTitleDone
       /\ ~IsNull(objs[o].pty)
       /\ procs[Val(objs[o].pty)].chunks = MaxChunks
       /\ Len(objs[o].outputLines) >= 4

\* ------------------------------------------------- the sweep interval
\* The interval of the fire-scheduled effect, kept in timers. elapsed tells
\* whether 30 s have gone by since it was armed or last ran.
SweepInterval(elapsed) == [kind |-> "sweep", elapsed |-> elapsed]

\* the cleanup clears the interval and the effect arms none
ArmSweep_OnlyClears(tms) ==
    tms \ {SweepInterval(TRUE), SweepInterval(FALSE)}

\* cleanup and effect body on a change of state.scheduledMessages:
\* clearInterval(interval); setInterval(..., 30_000)
ArmSweep(tms) ==
    (tms \ {SweepInterval(TRUE), SweepInterval(FALSE)})
       \cup {SweepInterval(FALSE)}

\* the mount effects: the interval is armed and HYDRATE is dispatched
SweepHydrate ==
    /\ DispatchHydrate
    /\ timers' = ArmSweep(timers)
    /\ UNCHANGED <<instances, objs, procs, dirty>>

\* SCHEDULE_MESSAGE and the effect that re-arms the interval
SweepSchedule(prompt, scheduledAt) ==
    /\ DispatchScheduleMessage(prompt, scheduledAt)
    /\ timers' = ArmSweep(timers)
    /\ UNCHANGED <<instances, objs, procs, dirty>>

\* CANCEL_SCHEDULED and the effect that re-arms the interval
SweepCancel(messageId) ==
    /\ DispatchCancelScheduled(messageId)
    /\ timers' = ArmSweep(timers)
    /\ UNCHANGED <<instances, objs, procs, dirty>>

\* 30 s go by with the interval armed
IntervalElapses ==
    /\ Running
    /\ SweepInterval(FALSE) \in timers
    /\ timers' = (timers \ {SweepInterval(FALSE)}) \cup {SweepInterval(TRUE)}
    /\ UNCHANGED storeVars
    /\ UNCHANGED <<instances, objs, procs, dirty>>

\* the interval callback runs; the interval goes on, or is armed again
\* when the sweep has changed the list
SweepCallback ==
    /\ SweepInterval(TRUE) \in timers
    /\ DispatchFireSweep
    /\ timers' = ArmSweep(timers)
    /\ UNCHANGED <<instances, objs, procs, dirty>>

\* SweepSpec: scheduled messages in an app that keeps running
SweepNext ==
    \/ \E c \in SweepChannels : StoreSelectChannel(c)
    \/ \E prompt \in Titles, at \in {now, now + 1} :
          SweepSchedule(prompt, at)
    \/ \E m \in MsgIds : SweepCancel(m)
    \/ IntervalElapses
    \/ SweepCallback
    \/ SweepHydrate
    \/ Tick

SweepSpec == Init /\ [][SweepNext]_vars

\* the timers of the event loop run: the mount effect, the 30 s of an armed
\* interval go by, an elapsed interval runs its callback
FairSweepSpec ==
    /\ SweepSpec
    /\ WF_vars(SweepHydrate)
    /\ WF_vars(IntervalElapses)
    /\ WF_vars(SweepCallback)

\* message m is pending and its time has come
DueMessage(m) ==
    /\ Running
    /\ HasMsg(scheduledMessages, m)
    /\ now >= MsgOf(scheduledMessages, m).scheduledAt

====
